---- MODULE Spec2Model ----
(***************************************************************************)
(* A model of the anchor-litesvm test-harness library: the fluent          *)
(* instruction builders, the execution adapters over the simulated ledger, *)
(* the TransactionResult wrapper with its assertion helpers, the account   *)
(* assertion helpers and the event-log parser.                             *)
(*                                                                         *)
(* The simulated ledger (LiteSVM), the token program's byte layouts, the   *)
(* transaction signing of the SDK and the base64 codec are collaborators   *)
(* outside the repository: the model keeps of them what the library's code *)
(* reads and calls, and leaves their answers nondeterministic.             *)
(***************************************************************************)
EXTENDS Integers, Sequences, FiniteSets, TLC

VARIABLES
    builder,   \* the builder value a fluent chain holds (InstructionBuilder or RequestBuilder)
    calls,     \* history: the calls made on the builder (for the token helpers: the
               \* accepted mint_to calls), in call order
    argsLog,   \* history: whether args was called on the builder, and with what
    built,     \* what the terminal operation (build / instructions) returned
    svm,       \* the simulated ledger (LiteSVM)
    lastCall,  \* history: the last operation called, its inputs and the ledger's answer
    ret,       \* the value the last operation returned
    chk        \* the outcome of the last assertion or query made on ret

vars == <<builder, calls, argsLog, built, svm, lastCall, ret, chk>>

builderVars == <<builder, calls, argsLog, built>>
ledgerVars == <<svm, lastCall, ret, chk>>

\* Option::None, and the absent value of every optional field.
None == [kind |-> "None"]

Some(v) == [kind |-> "Some", value |-> v]

(***************************************************************************)
(* Bounds of the model.                                                    *)
(***************************************************************************)
\* the longest account list a builder chain is followed to
MaxAccounts == 2

(***************************************************************************)
(* Bytes and the Borsh encoding of the argument tuples.                    *)
(***************************************************************************)
RECURSIVE LEBytes(_, _)
\* the k low bytes of n, least significant first
LEBytes(n, k) == IF k = 0 THEN <<>> ELSE <<n % 256>> \o LEBytes(n \div 256, k - 1)

\* u64::to_le_bytes: eight bytes, least significant first (Borsh's fixed-width integers)
U64LE(n) == LEBytes(n, 8)

RECURSIVE ConcatAll(_)
\* the concatenation of a sequence of byte sequences
ConcatAll(ss) == IF ss = <<>> THEN <<>> ELSE Head(ss) \o ConcatAll(Tail(ss))

\* TupleArgs::serialize writing the last element first
TupleArgs_serialize_LastFirst(t) ==
    ConcatAll([i \in 1..Len(t) |-> U64LE(t[Len(t) + 1 - i])])

\* TupleArgs<(T1, .., Tn)>::serialize: the elements' encodings in tuple order, no padding
TupleArgs_serialize(t) == ConcatAll([i \in 1..Len(t) |-> U64LE(t[i])])

\* the argument tuples the chains pass to args: (), (42,), (1000000, 42), (42, 100, 200)
ArgTuples == {<<>>, <<42>>, <<1000000, 42>>, <<42, 100, 200>>}

(***************************************************************************)
(* Addresses.                                                              *)
(***************************************************************************)
SystemProgramId == "11111111111111111111111111111111"
TokenProgramId == "TokenkegQfeZyiNwAJbNbGKPFXCWuBvf9Ss623VQ5DA"
AssociatedTokenProgramId == "ATokenGPvbdGVxr1b2hvZbsiqW5xWH25efTNsLJA8knL"
RentSysvarId == "SysvarRent111111111111111111111111111111111"

\* the keypairs of a test, named by their public keys
Keypairs == {"alice", "bob"}

\* the program the builders target
ProgramId == "program"

\* Keypair::pubkey
pubkey(kp) == kp

\* the display names a chain gives its accounts
AccountNames == {"user", "vault"}

\* the instruction names a builder is created with
InstructionNames == {"make", "take"}

\* calculate_anchor_discriminator: the first 8 bytes of sha256("global:" + name)
calculate_anchor_discriminator(name) ==
    CASE name = "make" -> <<138, 227, 232, 77, 223, 166, 96, 197>>
      [] name = "take" -> <<149, 226, 52, 104, 6, 142, 230, 39>>
      [] OTHER -> <<163, 36, 134, 53, 232, 223, 146, 222>>

(***************************************************************************)
(* AccountMeta and Instruction (solana_program::instruction).              *)
(***************************************************************************)
\* AccountMeta::new(pubkey, is_signer): a writable entry
AccountMeta_new(pk, is_signer) ==
    [pubkey |-> pk, is_signer |-> is_signer, is_writable |-> TRUE]

\* AccountMeta::new_readonly(pubkey, is_signer): a read-only entry
AccountMeta_new_readonly(pk, is_signer) ==
    [pubkey |-> pk, is_signer |-> is_signer, is_writable |-> FALSE]

Instruction(pid, accounts, data) ==
    [program_id |-> pid, accounts |-> accounts, data |-> data]

Ok(v) == [kind |-> "Ok", value |-> v]

Err(e) == [kind |-> "Err", error |-> e]

(***************************************************************************)
(* InstructionBuilder (the fluent builder of the legacy crate).            *)
(***************************************************************************)
InstructionBuilder_new(program_id, instruction_name) ==
    [type |-> "InstructionBuilder",
     program_id |-> program_id,
     instruction_name |-> instruction_name,
     accounts |-> <<>>,
     account_indices |-> [k \in {} |-> 0],
     data |-> <<>>]

\* HashMap::insert on the name -> index map
HashMap_insert(m, key, value) ==
    [k \in (DOMAIN m) \cup {key} |-> IF k = key THEN value ELSE m[k]]

\* PushAccount with the slip of keying the list by name: a second entry under a
\* name already used overwrites the first in place instead of being appended
PushAccount_MergeByName(b, name, meta) ==
    IF name \in DOMAIN b.account_indices
    THEN [b EXCEPT !.accounts[b.account_indices[name] + 1] =
                        [name |-> name, meta |-> meta]]
    ELSE [b EXCEPT !.accounts = Append(@, [name |-> name, meta |-> meta]),
                   !.account_indices = HashMap_insert(@, name, Len(b.accounts))]

\* PushAccount with entry(name).or_insert(index) for insert(name, index): the
\* index kept for a name is that of its first entry
PushAccount_KeepsFirstIndex(b, name, meta) ==
    [b EXCEPT !.accounts = Append(@, [name |-> name, meta |-> meta]),
              !.account_indices = IF name \in DOMAIN @
                                  THEN @
                                  ELSE HashMap_insert(@, name, Len(b.accounts))]

\* the body shared by account, account_mut, signer and signer_readonly:
\* index = accounts.len(); push (name, meta); account_indices.insert(name, index)
PushAccount(b, name, meta) ==
    LET index == Len(b.accounts)
    IN [b EXCEPT !.accounts = Append(@, [name |-> name, meta |-> meta]),
                 !.account_indices = HashMap_insert(@, name, index)]

InstructionBuilder_account(b, name, pk) ==
    PushAccount(b, name, AccountMeta_new_readonly(pk, FALSE))

InstructionBuilder_account_mut(b, name, pk) ==
    PushAccount(b, name, AccountMeta_new(pk, FALSE))

\* signer pushing AccountMeta::new_readonly for AccountMeta::new
InstructionBuilder_signer_NotWritable(b, name, keypair) ==
    PushAccount(b, name, AccountMeta_new_readonly(pubkey(keypair), TRUE))

InstructionBuilder_signer(b, name, keypair) ==
    PushAccount(b, name, AccountMeta_new(pubkey(keypair), TRUE))

InstructionBuilder_signer_readonly(b, name, keypair) ==
    PushAccount(b, name, AccountMeta_new_readonly(pubkey(keypair), TRUE))

InstructionBuilder_system_program(b) ==
    InstructionBuilder_account(b, "system_program", SystemProgramId)

InstructionBuilder_token_program(b) ==
    InstructionBuilder_account(b, "token_program", TokenProgramId)

InstructionBuilder_associated_token_program(b) ==
    InstructionBuilder_account(b, "associated_token_program", AssociatedTokenProgramId)

InstructionBuilder_rent_sysvar(b) ==
    InstructionBuilder_account(b, "rent", RentSysvarId)

\* args with the slip of serializing into the buffer without the discriminator
InstructionBuilder_args_NoDiscriminator(b, t) ==
    [b EXCEPT !.data = TupleArgs_serialize(t)]

\* args writing only the first 4 discriminator bytes before the arguments
InstructionBuilder_args_HalfDiscriminator(b, t) ==
    [b EXCEPT !.data = SubSeq(calculate_anchor_discriminator(b.instruction_name), 1, 4)
                         \o TupleArgs_serialize(t)]

\* args serializing onto the data already there, without starting over from the
\* discriminator
InstructionBuilder_args_Accumulates(b, t) ==
    [b EXCEPT !.data = IF @ = <<>>
                       THEN calculate_anchor_discriminator(b.instruction_name)
                                \o TupleArgs_serialize(t)
                       ELSE @ \o TupleArgs_serialize(t)]

\* args: data = discriminator.to_vec(); args.serialize(&mut data)
InstructionBuilder_args(b, t) ==
    [b EXCEPT !.data = calculate_anchor_discriminator(b.instruction_name)
                         \o TupleArgs_serialize(t)]

\* build: Err when data is empty, else the instruction with the metas in list order
InstructionBuilder_build(b) ==
    IF b.data = <<>>
    THEN Err("No instruction data provided. Call .args() before .build()")
    ELSE Ok(Instruction(b.program_id,
                        [i \in 1..Len(b.accounts) |-> b.accounts[i].meta],
                        b.data))

\* get_account reading the list one position before the index kept for the name
InstructionBuilder_get_account_OneBefore(b, name) ==
    IF name \notin DOMAIN b.account_indices
    THEN None
    ELSE LET index == b.account_indices[name]
         IN IF index \in 1..Len(b.accounts)
            THEN Some(b.accounts[index].meta)
            ELSE None

\* get_account: account_indices.get(name).and_then(|i| accounts.get(i)).map(|(_, m)| m)
InstructionBuilder_get_account(b, name) ==
    IF name \notin DOMAIN b.account_indices
    THEN None
    ELSE LET index == b.account_indices[name]
         IN IF index + 1 \in 1..Len(b.accounts)
            THEN Some(b.accounts[index + 1].meta)
            ELSE None

\* accounts(): the metas in list order
InstructionBuilder_accounts(b) == [i \in 1..Len(b.accounts) |-> b.accounts[i].meta]

(***************************************************************************)
(* Program / RequestBuilder (the anchor-client look-alike).                *)
(***************************************************************************)
\* InstructionData::data as the derive and the crate's tests write it:
\* the type's discriminator followed by the serialized fields
InstructionData_data(a) == a.discriminator \o TupleArgs_serialize(a.fields)

\* the argument values a request is given: two with an 8-byte discriminator, and
\* one whose data() is empty (no discriminator bytes, no fields)
InstructionDataValues ==
    {[discriminator |-> <<1, 2, 3, 4, 5, 6, 7, 8>>, fields |-> <<100>>],
     [discriminator |-> calculate_anchor_discriminator("make"), fields |-> <<>>],
     [discriminator |-> <<>>, fields |-> <<>>]}

\* ToAccountMetas::to_account_metas(None) of the account structs a request is given
AccountStructs ==
    {<<>>,
     <<AccountMeta_new("alice", TRUE), AccountMeta_new("bob", FALSE)>>,
     <<AccountMeta_new_readonly("bob", TRUE)>>}

RequestBuilder_new(program_id) ==
    [type |-> "RequestBuilder",
     program_id |-> program_id,
     accounts |-> <<>>,
     data |-> <<>>]

\* Program::request
Program_request(program_id) == RequestBuilder_new(program_id)

\* accounts: self.accounts = accounts.to_account_metas(None)
RequestBuilder_accounts(b, metas) == [b EXCEPT !.accounts = metas]

\* args: self.data = args.data()
RequestBuilder_args(b, a) == [b EXCEPT !.data = InstructionData_data(a)]

\* instructions: Err when data is empty, else a one-element vector
RequestBuilder_instructions(b) ==
    IF b.data = <<>>
    THEN Err("No instruction data provided. Call .args() before .instructions()")
    ELSE Ok(<<Instruction(b.program_id, b.accounts, b.data)>>)

\* instruction: instructions().map(|mut ixs| ixs.remove(0))
RequestBuilder_instruction(b) ==
    LET r == RequestBuilder_instructions(b)
    IN IF r.kind = "Ok" THEN Ok(Head(r.value)) ELSE r

(***************************************************************************)
(* The builder chains: one builder value, taken from new() to its terminal *)
(* operation, which consumes it.                                           *)
(***************************************************************************)
\* the addresses a chain passes to account / account_mut
Pubkeys == {"alice", "bob"}

\* the state of the ledger side while a builder chain runs
LedgerIdle ==
    /\ svm = None
    /\ lastCall = None
    /\ ret = None
    /\ chk = None

InitBuilder ==
    /\ builder \in {InstructionBuilder_new(ProgramId, n) : n \in InstructionNames}
                      \cup {Program_request(ProgramId)}
    /\ calls = <<>>
    /\ argsLog = None
    /\ built = None
    /\ LedgerIdle

\* the names get_account is asked for: the display names, the names the
\* well-known-program methods use, and one no call uses
QueryNames ==
    AccountNames \cup {"system_program", "token_program", "associated_token_program",
                       "rent", "missing"}

\* the builder has not been queried: get_account leaves the builder as it was,
\* so a chain is followed up to its query and no further
NotQueried == chk = None

\* an account-adding call on the InstructionBuilder the chain holds
CanAdd ==
    /\ built = None
    /\ NotQueried
    /\ builder.type = "InstructionBuilder"
    /\ Len(builder.accounts) < MaxAccounts

Added(method, name, pk) ==
    /\ calls' = Append(calls, [method |-> method, name |-> name, pubkey |-> pk])
    /\ UNCHANGED <<argsLog, built>>
    /\ UNCHANGED ledgerVars

IBAccount ==
    /\ CanAdd
    /\ \E name \in AccountNames, pk \in Pubkeys :
          /\ builder' = InstructionBuilder_account(builder, name, pk)
          /\ Added("account", name, pk)

IBAccountMut ==
    /\ CanAdd
    /\ \E name \in AccountNames, pk \in Pubkeys :
          /\ builder' = InstructionBuilder_account_mut(builder, name, pk)
          /\ Added("account_mut", name, pk)

IBSigner ==
    /\ CanAdd
    /\ \E name \in AccountNames, kp \in Keypairs :
          /\ builder' = InstructionBuilder_signer(builder, name, kp)
          /\ Added("signer", name, pubkey(kp))

IBSignerReadonly ==
    /\ CanAdd
    /\ \E name \in AccountNames, kp \in Keypairs :
          /\ builder' = InstructionBuilder_signer_readonly(builder, name, kp)
          /\ Added("signer_readonly", name, pubkey(kp))

IBSystemProgram ==
    /\ CanAdd
    /\ builder' = InstructionBuilder_system_program(builder)
    /\ Added("system_program", "system_program", SystemProgramId)

IBTokenProgram ==
    /\ CanAdd
    /\ builder' = InstructionBuilder_token_program(builder)
    /\ Added("token_program", "token_program", TokenProgramId)

IBAssociatedTokenProgram ==
    /\ CanAdd
    /\ builder' = InstructionBuilder_associated_token_program(builder)
    /\ Added("associated_token_program", "associated_token_program",
             AssociatedTokenProgramId)

IBRentSysvar ==
    /\ CanAdd
    /\ builder' = InstructionBuilder_rent_sysvar(builder)
    /\ Added("rent_sysvar", "rent", RentSysvarId)

IBArgs ==
    /\ built = None
    /\ NotQueried
    /\ builder.type = "InstructionBuilder"
    /\ \E t \in ArgTuples :
          /\ builder' = InstructionBuilder_args(builder, t)
          /\ argsLog' = Some(t)
    /\ UNCHANGED <<calls, built>>
    /\ UNCHANGED ledgerVars

IBGetAccount ==
    /\ built = None
    /\ NotQueried
    /\ builder.type = "InstructionBuilder"
    /\ \E name \in QueryNames :
          chk' = [op |-> "get_account", arg |-> name,
                  outcome |-> InstructionBuilder_get_account(builder, name)]
    /\ UNCHANGED <<svm, lastCall, ret>>
    /\ UNCHANGED builderVars

IBBuild ==
    /\ built = None
    /\ NotQueried
    /\ builder.type = "InstructionBuilder"
    /\ built' = InstructionBuilder_build(builder)
    /\ UNCHANGED <<builder, calls, argsLog>>
    /\ UNCHANGED ledgerVars

RBAccounts ==
    /\ built = None
    /\ builder.type = "RequestBuilder"
    /\ \E metas \in AccountStructs :
          /\ builder' = RequestBuilder_accounts(builder, metas)
          /\ calls' = <<[method |-> "accounts", metas |-> metas]>>
    /\ UNCHANGED <<argsLog, built>>
    /\ UNCHANGED ledgerVars

RBArgs ==
    /\ built = None
    /\ builder.type = "RequestBuilder"
    /\ \E a \in InstructionDataValues :
          /\ builder' = RequestBuilder_args(builder, a)
          /\ argsLog' = Some(a)
    /\ UNCHANGED <<calls, built>>
    /\ UNCHANGED ledgerVars

RBInstructions ==
    /\ built = None
    /\ builder.type = "RequestBuilder"
    /\ built' = RequestBuilder_instructions(builder)
    /\ UNCHANGED <<builder, calls, argsLog>>
    /\ UNCHANGED ledgerVars

NextBuilder ==
    \/ IBAccount
    \/ IBAccountMut
    \/ IBSigner
    \/ IBSignerReadonly
    \/ IBSystemProgram
    \/ IBTokenProgram
    \/ IBAssociatedTokenProgram
    \/ IBRentSysvar
    \/ IBArgs
    \/ IBBuild
    \/ RBAccounts
    \/ RBArgs
    \/ RBInstructions

SpecBuilder == InitBuilder /\ [][NextBuilder]_vars

\* the chains of SpecBuilder, each with at most one get_account query
NextQuery ==
    \/ NextBuilder
    \/ IBGetAccount

SpecQuery == InitBuilder /\ [][NextQuery]_vars

\* args called on an InstructionBuilder that was given a payload before; the
\* earlier payload is kept aside in lastCall
IBArgsAgain ==
    /\ built = None
    /\ NotQueried
    /\ builder.type = "InstructionBuilder"
    /\ argsLog # None
    /\ \E t \in ArgTuples :
          /\ builder' = InstructionBuilder_args(builder, t)
          /\ argsLog' = Some(t)
    /\ lastCall' = [op |-> "args", previous |-> argsLog.value]
    /\ UNCHANGED <<calls, built, svm, ret, chk>>

\* args called on a RequestBuilder that was given a payload before
RBArgsAgain ==
    /\ built = None
    /\ builder.type = "RequestBuilder"
    /\ argsLog # None
    /\ \E a \in InstructionDataValues :
          /\ builder' = RequestBuilder_args(builder, a)
          /\ argsLog' = Some(a)
    /\ lastCall' = [op |-> "args", previous |-> argsLog.value]
    /\ UNCHANGED <<calls, built, svm, ret, chk>>

\* the chains in which a payload is set more than once
NextPayload ==
    \/ IBAccount
    \/ IBSigner
    \/ IBSystemProgram
    \/ IBArgs
    \/ IBArgsAgain
    \/ IBBuild
    \/ RBAccounts
    \/ RBArgs
    \/ RBArgsAgain
    \/ RBInstructions

SpecPayload == InitBuilder /\ [][NextPayload]_vars

(***************************************************************************)
(* Text. An error description is a sequence of characters, so that the     *)
(* formatting (Debug, {:x}) and str::contains are modelled by what they do.*)
(***************************************************************************)
Digits == <<"0", "1", "2", "3", "4", "5", "6", "7", "8", "9", "a", "b", "c", "d", "e", "f">>

RECURSIVE Radix(_, _)
\* the digits of n in the given base, most significant first, no padding
Radix(n, base) ==
    IF n < base
    THEN <<Digits[n + 1]>>
    ELSE Radix(n \div base, base) \o <<Digits[(n % base) + 1]>>

\* format!("{}", n) / format!("{:?}", n) of an unsigned integer
Decimal(n) == Radix(n, 10)

\* format!("{:x}", n)
LowerHex(n) == Radix(n, 16)

\* str::contains: needle occurs in hay as a contiguous run of characters
Contains(hay, needle) ==
    \E i \in 0..(Len(hay) - Len(needle)) : SubSeq(hay, i + 1, i + Len(needle)) = needle

(***************************************************************************)
(* The ledger's answers (litesvm::types) and the SDK's TransactionError.   *)
(***************************************************************************)
\* TransactionError::InstructionError(index, InstructionError::Custom(code))
CustomError(index, code) ==
    [variant |-> "InstructionError", index |-> index,
     inner |-> [variant |-> "Custom", code |-> code]]

\* TransactionError::InstructionError(index, InstructionError::InsufficientFunds)
InsufficientFundsError(index) ==
    [variant |-> "InstructionError", index |-> index,
     inner |-> [variant |-> "InsufficientFunds"]]

\* TransactionError::AccountNotFound
AccountNotFoundError == [variant |-> "AccountNotFound"]

\* the custom program error codes the deployed programs fail with (0x17, 0x1770, 0x1771)
ErrorCodes == {23, 6000, 6001}

\* #[derive(Debug)] of InstructionError
Debug_InstructionError(e) ==
    IF e.variant = "Custom"
    THEN <<"C", "u", "s", "t", "o", "m", "(">> \o Decimal(e.code) \o <<")">>
    ELSE <<"I", "n", "s", "u", "f", "f", "i", "c", "i", "e", "n", "t", "F", "u", "n", "d", "s">>

\* #[derive(Debug)] of TransactionError: what format!("{:?}", failed.err) yields
Debug_TransactionError(e) ==
    IF e.variant = "InstructionError"
    THEN <<"I", "n", "s", "t", "r", "u", "c", "t", "i", "o", "n", "E", "r", "r", "o", "r", "(">> \o Decimal(e.index) \o <<",", " ">>
            \o Debug_InstructionError(e.inner) \o <<")">>
    ELSE <<"A", "c", "c", "o", "u", "n", "t", "N", "o", "t", "F", "o", "u", "n", "d">>

\* a log line: its leading text and what follows it. What follows "Program data: "
\* is base64 text, kept as what the base64 engine makes of it.
LogLine(prefix, rest) == [prefix |-> prefix, rest |-> rest]

\* TransactionMetadata: the logs and the compute units the ledger reports
TransactionMetadata(logs, cu) == [logs |-> logs, compute_units_consumed |-> cu]

\* the metadata the ledger reports in the execution runs
Metas ==
    {TransactionMetadata(<<LogLine("Program log: ", "Instruction: Make"),
                           LogLine("Program ", "consumed 1500 of 200000 compute units")>>,
                         1500),
     TransactionMetadata(<<>>, 0)}

\* the errors the ledger rejects a transaction with
LedgerErrors ==
    {CustomError(0, c) : c \in ErrorCodes}
        \cup {InsufficientFundsError(0), AccountNotFoundError}

\* FailedTransactionMetadata { err, meta }
FailedTransactionMetadata(e, m) == [err |-> e, meta |-> m]

\* what LiteSVM::send_transaction may answer: Ok(meta) or Err(FailedTransactionMetadata)
LedgerAnswers ==
    {Ok(m) : m \in Metas}
        \cup {Err(FailedTransactionMetadata(e, m)) : e \in LedgerErrors, m \in Metas}

(***************************************************************************)
(* TransactionResult (litesvm-utils).                                      *)
(***************************************************************************)
TransactionResult_new(result, instruction_name) ==
    [inner |-> result, instruction_name |-> instruction_name, error |-> None]

TransactionResult_new_failed(error, result, instruction_name) ==
    [inner |-> result, instruction_name |-> instruction_name, error |-> Some(error)]

TransactionResult_logs(r) == r.inner.logs

TransactionResult_compute_units(r) == r.inner.compute_units_consumed

\* log.contains(message), for a message that is the whole leading text or the
\* whole remainder of a line
LogContains(log, message) == message = log.prefix \/ message = log.rest

\* self.inner.logs.iter().any(|log| log.contains(message))
TransactionResult_has_log(r, message) ==
    \E i \in 1..Len(r.inner.logs) : LogContains(r.inner.logs[i], message)

\* self.inner.logs.iter().find(|log| log.contains(pattern))
TransactionResult_find_log(r, pattern) ==
    LET found == {i \in 1..Len(r.inner.logs) : LogContains(r.inner.logs[i], pattern)}
    IN IF found = {}
       THEN None
       ELSE Some(r.inner.logs[CHOOSE i \in found : \A j \in found : i <= j])

\* a receiver whose logs the call takes out of it
TransactionResult_self_TakesLogs(r) == [r EXCEPT !.inner.logs = <<>>]

\* the result after a call that has it as its &self receiver
TransactionResult_self(r) == r

TransactionResult_is_success(r) == r.error = None

TransactionResult_error(r) == r.error

\* assert!(self.error.is_none(), ..)
TransactionResult_assert_success(r) ==
    IF r.error = None THEN "pass" ELSE "panic"

\* assert_failure with the condition of assert_success copied over unchanged
TransactionResult_assert_failure_IsNone(r) ==
    IF r.error = None THEN "pass" ELSE "panic"

\* assert!(self.error.is_some(), ..)
TransactionResult_assert_failure(r) ==
    IF r.error # None THEN "pass" ELSE "panic"

\* match &self.error { Some(error) => assert!(error.contains(expected)), None => panic!() }
TransactionResult_assert_error(r, expected_error) ==
    IF r.error = None
    THEN "panic"
    ELSE IF Contains(r.error.value, expected_error) THEN "pass" ELSE "panic"

\* format!("custom program error: 0x{:x}", error_code), then assert_error
TransactionResult_assert_error_code(r, error_code) ==
    TransactionResult_assert_error(
        r, <<"c", "u", "s", "t", "o", "m", " ", "p", "r", "o", "g", "r", "a", "m", " ", "e", "r", "r", "o", "r", ":", " ", "0", "x">> \o LowerHex(error_code))

(***************************************************************************)
(* The execution adapters. Each operator takes the ledger, the call's      *)
(* inputs and the answer the ledger gives if it is asked, and yields what  *)
(* the call returns (ret) and the transaction it handed to                 *)
(* LiteSVM::send_transaction (tx, None when the ledger was not contacted). *)
(***************************************************************************)
\* the most transactions a run hands to the ledger
MaxTx == 2

\* the default payer an AnchorContext creates and funds in new()
CtxPayer == "payer"

\* a panic: the unwinding of the calling test
Panic(msg) == [kind |-> "Panic", message |-> msg]

\* TransactionError::BuildError(msg)
BuildError(msg) == [variant |-> "BuildError", message |-> msg]

\* TransactionError::ExecutionFailed(format!("{:?}", e)) of the legacy crate, kept as
\* the failure value it renders
ExecutionFailed(e) == [variant |-> "ExecutionFailed", debug_of |-> e]

Range(f) == {f[i] : i \in DOMAIN f}

\* the is_signer keys of the instructions' account lists
SignerKeys(ixs) ==
    UNION {{m.pubkey : m \in {a \in Range(ixs[i].accounts) : a.is_signer}} :
              i \in 1..Len(ixs)}

\* Transaction::new_signed_with_payer: Message::new(ixs, payer), then sign, which
\* panics unless the given keypairs are exactly the message's required signers
Transaction_new_signed_with_payer(ixs, payer, signers, recent_blockhash) ==
    IF Range(signers) = {payer} \cup SignerKeys(ixs)
    THEN [kind |-> "Transaction", instructions |-> ixs, payer |-> payer,
          signers |-> signers, recent_blockhash |-> recent_blockhash]
    ELSE Panic("Transaction::sign failed")

\* LiteSVM::send_transaction: the ledger after it took a transaction and gave answer
LiteSVM_send_transaction(s, answer) ==
    [s EXCEPT !.sent = @ + 1,
              !.committed = IF answer.kind = "Ok" THEN @ + 1 ELSE @]

\* send_transaction_result with the slip of the legacy adapters: a rejection is
\* propagated as Err(ExecutionFailed) instead of being captured in a result
send_transaction_result_Propagate(tx, answer) ==
    IF answer.kind = "Ok"
    THEN [ret |-> Ok(TransactionResult_new(answer.value, None)), tx |-> Some(tx)]
    ELSE [ret |-> Err(ExecutionFailed(answer.error)), tx |-> Some(tx)]

\* TransactionHelpers::send_transaction_result (for LiteSVM)
send_transaction_result(tx, answer) ==
    IF answer.kind = "Ok"
    THEN [ret |-> Ok(TransactionResult_new(answer.value, None)), tx |-> Some(tx)]
    ELSE [ret |-> Ok(TransactionResult_new_failed(
                         Debug_TransactionError(answer.error.err),
                         answer.error.meta, None)),
          tx |-> Some(tx)]

\* send_instructions putting only the first instruction into the transaction
send_instructions_FirstOnly(s, instructions, signers, answer) ==
    IF signers = <<>>
    THEN [ret |-> Err(BuildError("No signers provided")), tx |-> None]
    ELSE LET tx == Transaction_new_signed_with_payer(
                       SubSeq(instructions, 1, 1), pubkey(signers[1]), signers,
                       s.latest_blockhash)
         IN IF tx.kind = "Panic"
            THEN [ret |-> tx, tx |-> None]
            ELSE send_transaction_result(tx, answer)

\* send_instructions taking the last signer as the payer
send_instructions_LastSignerPays(s, instructions, signers, answer) ==
    IF signers = <<>>
    THEN [ret |-> Err(BuildError("No signers provided")), tx |-> None]
    ELSE LET tx == Transaction_new_signed_with_payer(
                       instructions, pubkey(signers[Len(signers)]), signers,
                       s.latest_blockhash)
         IN IF tx.kind = "Panic"
            THEN [ret |-> tx, tx |-> None]
            ELSE send_transaction_result(tx, answer)

\* TransactionHelpers::send_instructions (for LiteSVM)
send_instructions(s, instructions, signers, answer) ==
    IF signers = <<>>
    THEN [ret |-> Err(BuildError("No signers provided")), tx |-> None]
    ELSE LET tx == Transaction_new_signed_with_payer(
                       instructions, pubkey(signers[1]), signers, s.latest_blockhash)
         IN IF tx.kind = "Panic"
            THEN [ret |-> tx, tx |-> None]
            ELSE send_transaction_result(tx, answer)

\* TransactionHelpers::send_instruction (for LiteSVM): the same code over &[instruction]
send_instruction(s, instruction, signers, answer) ==
    IF signers = <<>>
    THEN [ret |-> Err(BuildError("No signers provided")), tx |-> None]
    ELSE LET tx == Transaction_new_signed_with_payer(
                       <<instruction>>, pubkey(signers[1]), signers, s.latest_blockhash)
         IN IF tx.kind = "Panic"
            THEN [ret |-> tx, tx |-> None]
            ELSE send_transaction_result(tx, answer)

\* the legacy send_instructions capturing a rejection in a result, as the
\* litesvm-utils one does
AnchorContext_send_instructions_Captures(s, instructions, signers, answer) ==
    send_instructions(s, instructions, signers, answer)

\* TransactionHelpers for AnchorContext of the legacy crate :: send_instructions;
\* a rejection is returned as Err(ExecutionFailed)
AnchorContext_send_instructions(s, instructions, signers, answer) ==
    IF signers = <<>>
    THEN [ret |-> Err(BuildError("No signers provided")), tx |-> None]
    ELSE LET tx == Transaction_new_signed_with_payer(
                       instructions, pubkey(signers[1]), signers, s.latest_blockhash)
         IN IF tx.kind = "Panic"
            THEN [ret |-> tx, tx |-> None]
            ELSE IF answer.kind = "Ok"
                 THEN [ret |-> Ok(TransactionResult_new(answer.value, None)),
                       tx |-> Some(tx)]
                 ELSE [ret |-> Err(ExecutionFailed(answer.error)), tx |-> Some(tx)]

\* TransactionHelpers for AnchorContext of the legacy crate :: send_instruction
AnchorContext_send_instruction(s, instruction, signers, answer) ==
    AnchorContext_send_instructions(s, <<instruction>>, signers, answer)

\* TransactionHelpers for AnchorContext of the legacy crate :: execute,
\* instruction being what build_instruction returned for instruction_name; the result
\* send_instruction returns is given the instruction's name as its label
TransactionHelpers_execute(s, instruction_name, instruction, signers, answer) ==
    IF instruction.kind = "Err"
    THEN [ret |-> Err(BuildError(instruction.error)), tx |-> None]
    ELSE LET out == AnchorContext_send_instruction(s, instruction.value, signers, answer)
         IN IF out.ret.kind = "Ok"
            THEN [out EXCEPT !.ret.value.instruction_name = Some(<<instruction_name>>)]
            ELSE out

\* TransactionResult::assert_success of the legacy crate: returns self
LegacyTransactionResult_assert_success(r) == "pass"

\* the body shared by AnchorContext::execute_instruction and execute_instructions:
\* the payer is the first signer, or the context's payer when there is none
AnchorContext_execute(s, instructions, signers, label, answer) ==
    LET payer_pubkey == IF signers # <<>> THEN pubkey(signers[1]) ELSE pubkey(CtxPayer)
        tx == Transaction_new_signed_with_payer(
                  instructions, payer_pubkey, signers, s.latest_blockhash)
    IN IF tx.kind = "Panic"
       THEN [ret |-> tx, tx |-> None]
       ELSE IF answer.kind = "Ok"
            THEN [ret |-> Ok(TransactionResult_new(answer.value, Some(label))),
                  tx |-> Some(tx)]
            ELSE [ret |-> Ok(TransactionResult_new_failed(
                                 Debug_TransactionError(answer.error.err),
                                 answer.error.meta, Some(label))),
                  tx |-> Some(tx)]

\* AnchorContext::execute_instruction
AnchorContext_execute_instruction(s, instruction, signers, answer) ==
    AnchorContext_execute(s, <<instruction>>, signers,
                          <<"instruction to ", instruction.program_id>>, answer)

\* AnchorContext::execute_instructions
AnchorContext_execute_instructions(s, instructions, signers, answer) ==
    AnchorContext_execute(s, instructions, signers, <<"batch transaction">>, answer)

\* InstructionBuilder::execute: build, then the signer check, then one transaction;
\* a rejection is returned as Err(ExecutionFailed)
InstructionBuilder_execute(b, s, signers, answer) ==
    LET instruction == InstructionBuilder_build(b)
    IN IF instruction.kind = "Err"
       THEN [ret |-> Err(BuildError(instruction.error)), tx |-> None]
       ELSE IF signers = <<>>
            THEN [ret |-> Err(BuildError("No signers provided")), tx |-> None]
            ELSE LET tx == Transaction_new_signed_with_payer(
                               <<instruction.value>>, pubkey(signers[1]), signers,
                               s.latest_blockhash)
                 IN IF tx.kind = "Panic"
                    THEN [ret |-> tx, tx |-> None]
                    ELSE IF answer.kind = "Ok"
                         THEN [ret |-> Ok(TransactionResult_new(
                                              answer.value, Some(<<b.instruction_name>>))),
                               tx |-> Some(tx)]
                         ELSE [ret |-> Err(ExecutionFailed(answer.error)),
                               tx |-> Some(tx)]

(***************************************************************************)
(* The execution runs: a test that holds a ledger, submits instructions    *)
(* through the adapters and makes assertions on the result it got back.    *)
(***************************************************************************)
\* "make": alice signs (writable signer), 42 as the argument
IxMakeBuilder ==
    InstructionBuilder_args(
        InstructionBuilder_signer(InstructionBuilder_new(ProgramId, "make"), "user", "alice"),
        <<42>>)

\* "take": one writable account, no signer, no arguments
IxTakeBuilder ==
    InstructionBuilder_args(
        InstructionBuilder_account_mut(InstructionBuilder_new(ProgramId, "take"), "vault", "bob"),
        <<>>)

\* a chain on which args was never called
NoArgsBuilder ==
    InstructionBuilder_signer(InstructionBuilder_new(ProgramId, "make"), "user", "alice")

\* "refund": bob signs (read-only signer), no arguments
IxRefundBuilder ==
    InstructionBuilder_args(
        InstructionBuilder_signer_readonly(InstructionBuilder_new(ProgramId, "refund"),
                                           "maker", "bob"),
        <<>>)

IxMake == InstructionBuilder_build(IxMakeBuilder).value

IxRefund == InstructionBuilder_build(IxRefundBuilder).value

IxTake == InstructionBuilder_build(IxTakeBuilder).value

ExecInstructions == {IxMake, IxTake}

ExecInstructionLists == {<<IxTake>>, <<IxMake, IxTake>>, <<IxMake, IxRefund>>}

ExecBuilders == {IxMakeBuilder, IxTakeBuilder, NoArgsBuilder}

\* the signer lists a test passes: none, one, two
SignerLists == {<<>>, <<"alice">>, <<"bob">>, <<"bob", "alice">>}

\* the error descriptions a test passes to TransactionResult::new_failed
ErrorTexts ==
    {Debug_TransactionError(CustomError(0, 6000)),
     <<"P", "r", "o", "g", "r", "a", "m", " ", "f", "a", "i", "l", "e", "d", ":", " ", "c", "u", "s", "t", "o", "m", " ", "p", "r", "o", "g", "r", "a", "m", " ", "e", "r", "r", "o", "r", ":", " ", "0", "x", "1", "7", "7", "0">>}

\* the substrings a test passes to assert_error
ExpectedErrors == {<<"C", "u", "s", "t", "o", "m", "(", "6", "0", "0", "0", ")">>, <<"I", "n", "s", "u", "f", "f", "i", "c", "i", "e", "n", "t", "F", "u", "n", "d", "s">>}

\* LiteSVM::new(): no transaction taken yet, no account stored; sent and
\* committed count the transactions the execution adapters submitted and the
\* ledger accepted
LiteSVM_new ==
    [latest_blockhash |-> 1, sent |-> 0, committed |-> 0,
     accounts |-> [a \in {} |-> None]]

BuilderIdle ==
    /\ builder = None
    /\ calls = <<>>
    /\ argsLog = None
    /\ built = None

InitExec ==
    /\ svm = LiteSVM_new
    /\ lastCall = None
    /\ ret = None
    /\ chk = None
    /\ BuilderIdle

\* no panic has unwound the test
Alive ==
    /\ IF ret = None THEN TRUE ELSE ret.kind # "Panic"
    /\ IF chk = None THEN TRUE ELSE chk.outcome # "panic"

CanSubmit == Alive /\ svm.sent < MaxTx

\* the effect of an adapter call that gave out (ret and tx) on the test's state
Called(op, input, signers, answer, out) ==
    /\ ret' = out.ret
    /\ svm' = IF out.tx = None THEN svm ELSE LiteSVM_send_transaction(svm, answer)
    /\ lastCall' = [op |-> op, input |-> input, signers |-> signers, tx |-> out.tx,
                    answer |-> IF out.tx = None THEN None ELSE Some(answer),
                    before |-> svm]
    /\ chk' = None
    /\ UNCHANGED builderVars

SendInstruction ==
    /\ CanSubmit
    /\ \E ix \in ExecInstructions, signers \in SignerLists, answer \in LedgerAnswers :
          Called("send_instruction", <<ix>>, signers, answer,
                 send_instruction(svm, ix, signers, answer))

SendInstructions ==
    /\ CanSubmit
    /\ \E ixs \in ExecInstructionLists, signers \in SignerLists, answer \in LedgerAnswers :
          Called("send_instructions", ixs, signers, answer,
                 send_instructions(svm, ixs, signers, answer))

\* send_transaction_result on a transaction the test signed itself
SendTransactionResult ==
    /\ CanSubmit
    /\ \E ix \in ExecInstructions, answer \in LedgerAnswers :
          LET tx == Transaction_new_signed_with_payer(
                        <<ix>>, "alice", <<"alice">>, svm.latest_blockhash)
          IN Called("send_transaction_result", <<ix>>, <<"alice">>, answer,
                    send_transaction_result(tx, answer))

CtxExecuteInstruction ==
    /\ CanSubmit
    /\ \E ix \in ExecInstructions, signers \in SignerLists, answer \in LedgerAnswers :
          Called("execute_instruction", <<ix>>, signers, answer,
                 AnchorContext_execute_instruction(svm, ix, signers, answer))

CtxExecuteInstructions ==
    /\ CanSubmit
    /\ \E ixs \in ExecInstructionLists, signers \in SignerLists, answer \in LedgerAnswers :
          Called("execute_instructions", ixs, signers, answer,
                 AnchorContext_execute_instructions(svm, ixs, signers, answer))

LegacySendInstruction ==
    /\ CanSubmit
    /\ \E ix \in ExecInstructions, signers \in SignerLists, answer \in LedgerAnswers :
          Called("AnchorContext::send_instruction", <<ix>>, signers, answer,
                 AnchorContext_send_instruction(svm, ix, signers, answer))

LegacySendInstructions ==
    /\ CanSubmit
    /\ \E ixs \in ExecInstructionLists, signers \in SignerLists, answer \in LedgerAnswers :
          Called("AnchorContext::send_instructions", ixs, signers, answer,
                 AnchorContext_send_instructions(svm, ixs, signers, answer))

IBExecute ==
    /\ CanSubmit
    /\ \E b \in ExecBuilders, signers \in SignerLists, answer \in LedgerAnswers :
          Called("execute", b, signers, answer,
                 InstructionBuilder_execute(b, svm, signers, answer))

\* what AnchorContext::build_instruction of the legacy crate returns to execute
BuildInstructionResults ==
    {[name |-> "make", built |-> Ok(IxMake)],
     [name |-> "take", built |-> Ok(IxTake)],
     [name |-> "make", built |-> Err("Failed to serialize instruction data")]}

LegacyExecute ==
    /\ CanSubmit
    /\ \E b \in BuildInstructionResults, signers \in SignerLists, answer \in LedgerAnswers :
          Called("AnchorContext::execute", b, signers, answer,
                 TransactionHelpers_execute(svm, b.name, b.built, signers, answer))

\* TransactionResult::new called by the test itself
MakeNew ==
    /\ Alive
    /\ \E m \in Metas :
          /\ ret' = [kind |-> "Value", value |-> TransactionResult_new(m, None)]
          /\ lastCall' = [op |-> "new", input |-> m, signers |-> <<>>, tx |-> None,
                          answer |-> None, before |-> svm]
    /\ chk' = None
    /\ UNCHANGED svm
    /\ UNCHANGED builderVars

\* TransactionResult::new_failed called by the test itself
MakeNewFailed ==
    /\ Alive
    /\ \E m \in Metas, e \in ErrorTexts :
          /\ ret' = [kind |-> "Value", value |-> TransactionResult_new_failed(e, m, None)]
          /\ lastCall' = [op |-> "new_failed", input |-> m, signers |-> <<>>, tx |-> None,
                          answer |-> None, before |-> svm]
    /\ chk' = None
    /\ UNCHANGED svm
    /\ UNCHANGED builderVars

\* the test holds a TransactionResult
HasResult == IF ret = None THEN FALSE ELSE ret.kind \in {"Ok", "Value"}

\* an assertion or query on the result at hand
Checked(op, arg, outcome) ==
    /\ chk' = [op |-> op, arg |-> arg, outcome |-> outcome]
    /\ UNCHANGED <<svm, lastCall, ret>>
    /\ UNCHANGED builderVars

\* the messages a test looks for in the logs
LogMessages == {"Instruction: Make", "Instruction: Take"}

\* a query on the result at hand, which is its &self receiver
Queried(op, arg, value) ==
    /\ chk' = [op |-> op, arg |-> arg, outcome |-> "returned", value |-> value]
    /\ ret' = [ret EXCEPT !.value = TransactionResult_self(@)]
    /\ UNCHANGED <<svm, lastCall>>
    /\ UNCHANGED builderVars

Logs ==
    /\ Alive /\ HasResult
    /\ Queried("logs", None, TransactionResult_logs(ret.value))

HasLog ==
    /\ Alive /\ HasResult
    /\ \E message \in LogMessages :
          Queried("has_log", message, TransactionResult_has_log(ret.value, message))

FindLog ==
    /\ Alive /\ HasResult
    /\ \E pattern \in LogMessages :
          Queried("find_log", pattern, TransactionResult_find_log(ret.value, pattern))

ComputeUnits ==
    /\ Alive /\ HasResult
    /\ Queried("compute_units", None, TransactionResult_compute_units(ret.value))

ErrorOf ==
    /\ Alive /\ HasResult
    /\ Queried("error", None, TransactionResult_error(ret.value))

AssertSuccess ==
    /\ Alive /\ HasResult
    /\ Checked("assert_success", None, TransactionResult_assert_success(ret.value))

\* the operations of the legacy crate that return a TransactionResult
LegacyOperations ==
    {"AnchorContext::send_instruction", "AnchorContext::send_instructions",
     "AnchorContext::execute", "execute"}

\* assert_success of the legacy crate on a result a legacy operation returned
LegacyAssertSuccess ==
    /\ Alive /\ HasResult
    /\ lastCall.op \in LegacyOperations
    /\ Checked("TransactionResult::assert_success", None,
               LegacyTransactionResult_assert_success(ret.value))

AssertFailure ==
    /\ Alive /\ HasResult
    /\ Checked("assert_failure", None, TransactionResult_assert_failure(ret.value))

AssertError ==
    /\ Alive /\ HasResult
    /\ \E e \in ExpectedErrors :
          Checked("assert_error", e, TransactionResult_assert_error(ret.value, e))

AssertErrorCode ==
    /\ Alive /\ HasResult
    /\ \E c \in ErrorCodes :
          Checked("assert_error_code", c, TransactionResult_assert_error_code(ret.value, c))

IsSuccess ==
    /\ Alive /\ HasResult
    /\ Checked("is_success", None,
               IF TransactionResult_is_success(ret.value) THEN "true" ELSE "false")

NextExec ==
    \/ SendInstruction
    \/ SendInstructions
    \/ SendTransactionResult
    \/ CtxExecuteInstruction
    \/ CtxExecuteInstructions
    \/ LegacySendInstruction
    \/ LegacySendInstructions
    \/ IBExecute
    \/ LegacyExecute
    \/ MakeNew
    \/ MakeNewFailed
    \/ AssertSuccess
    \/ LegacyAssertSuccess
    \/ AssertFailure
    \/ AssertError
    \/ AssertErrorCode
    \/ IsSuccess

SpecExec == InitExec /\ [][NextExec]_vars

\* the runs in which a test also reads the result it holds
NextResult ==
    \/ SendInstruction
    \/ CtxExecuteInstruction
    \/ LegacyExecute
    \/ MakeNew
    \/ MakeNewFailed
    \/ AssertSuccess
    \/ LegacyAssertSuccess
    \/ AssertFailure
    \/ AssertError
    \/ AssertErrorCode
    \/ IsSuccess
    \/ Logs
    \/ HasLog
    \/ FindLog
    \/ ComputeUnits
    \/ ErrorOf

SpecResult == InitExec /\ [][NextResult]_vars

(***************************************************************************)
(* Accounts on the ledger, the SPL token layouts, the token helpers of     *)
(* litesvm-utils, and the account assertions of litesvm-utils (on LiteSVM) *)
(* and of anchor-litesvm (on AnchorContext).                               *)
(***************************************************************************)
\* the largest mint supply the runs reach
MaxSupply == 2000

\* spl_token::state::Account::LEN, written out by create_token_account
Account_LEN == 165

\* spl_token::state::Mint::LEN, written out by create_token_mint
Mint_LEN == 82

\* the addresses of the runs: a funded authority, its mint, its associated
\* token account, and an address whose account the test sets directly
AddressBook == <<"alice", "mint", "ata", "vault", TokenProgramId, SystemProgramId>>

\* Pubkey::to_bytes: 32 bytes, different for different addresses
Pubkey_to_bytes(pk) ==
    LET tag == CHOOSE i \in 1..Len(AddressBook) : AddressBook[i] = pk
    IN [i \in 1..32 |-> tag]

\* u64::from_le_bytes
RECURSIVE U64_from_le_bytes(_)
U64_from_le_bytes(bytes) ==
    IF bytes = <<>> THEN 0 ELSE Head(bytes) + 256 * U64_from_le_bytes(Tail(bytes))

Zeros(n) == [i \in 1..n |-> 0]

\* COption<Pubkey> in the token layouts: a 4-byte tag and 32 bytes
COption_pack_key(opt) ==
    IF opt = None THEN <<0, 0, 0, 0>> \o Zeros(32)
    ELSE <<1, 0, 0, 0>> \o Pubkey_to_bytes(opt.value)

\* COption<u64> in the token layouts: a 4-byte tag and 8 bytes
COption_pack_u64(opt) ==
    IF opt = None THEN <<0, 0, 0, 0>> \o Zeros(8)
    ELSE <<1, 0, 0, 0>> \o U64LE(opt.value)

\* the tag of a packed COption is None or Some
COption_tag_ok(bytes) == bytes \in {<<0, 0, 0, 0>>, <<1, 0, 0, 0>>}

\* spl_token::state::Account::pack: mint, owner, amount, delegate, state,
\* is_native, delegated_amount, close_authority
TokenAccount_pack(a) ==
    Pubkey_to_bytes(a.mint) \o Pubkey_to_bytes(a.owner) \o U64LE(a.amount)
        \o COption_pack_key(a.delegate) \o <<a.state>> \o COption_pack_u64(a.is_native)
        \o U64LE(a.delegated_amount) \o COption_pack_key(a.close_authority)

\* spl_token::state::Account::unpack: the length is checked, then the fields,
\* then that the account is initialized
TokenAccount_unpack(data) ==
    IF Len(data) # Account_LEN
    THEN Err("InvalidAccountData")
    ELSE IF \/ data[109] \notin {0, 1, 2}
            \/ ~COption_tag_ok(SubSeq(data, 73, 76))
            \/ ~COption_tag_ok(SubSeq(data, 110, 113))
            \/ ~COption_tag_ok(SubSeq(data, 130, 133))
    THEN Err("InvalidAccountData")
    ELSE IF data[109] = 0
    THEN Err("UninitializedAccount")
    ELSE Ok([mint |-> SubSeq(data, 1, 32), owner |-> SubSeq(data, 33, 64),
             amount |-> U64_from_le_bytes(SubSeq(data, 65, 72)), state |-> data[109]])

\* spl_token::state::Mint::pack: mint_authority, supply, decimals,
\* is_initialized, freeze_authority
Mint_pack(m) ==
    COption_pack_key(m.mint_authority) \o U64LE(m.supply) \o <<m.decimals>>
        \o <<IF m.is_initialized THEN 1 ELSE 0>> \o COption_pack_key(m.freeze_authority)

\* spl_token::state::Mint::unpack
Mint_unpack(data) ==
    IF Len(data) # Mint_LEN
    THEN Err("InvalidAccountData")
    ELSE IF \/ data[46] \notin {0, 1}
            \/ ~COption_tag_ok(SubSeq(data, 1, 4))
            \/ ~COption_tag_ok(SubSeq(data, 47, 50))
    THEN Err("InvalidAccountData")
    ELSE IF data[46] = 0
    THEN Err("UninitializedAccount")
    ELSE Ok([supply |-> U64_from_le_bytes(SubSeq(data, 37, 44)), decimals |-> data[45]])

\* solana_sdk::account::Account, as the helpers and assertions read it
Account(lamports, data, owner) == [lamports |-> lamports, data |-> data, owner |-> owner]

\* LiteSVM::get_account
LiteSVM_get_account(s, addr) ==
    IF addr \in DOMAIN s.accounts THEN Some(s.accounts[addr]) ELSE None

\* LiteSVM::set_account
LiteSVM_set_account(s, addr, account) ==
    [s EXCEPT !.accounts =
        [k \in (DOMAIN s.accounts) \cup {addr} |-> IF k = addr THEN account ELSE s.accounts[k]]]

\* LiteSVM::minimum_balance_for_rent_exemption under the default rent
minimum_balance_for_rent_exemption(len) == (128 + len) * 3480 * 2

\* the fee the ledger takes from the payer of an accepted transaction
TransactionFee(signatures) == 5000 * signatures

\* get_associated_token_address(owner, mint)
get_associated_token_address(owner, mint) == "ata"

\* the payer of an accepted transaction, debited by what it paid
Debit(s, payer, lamports) ==
    [s EXCEPT !.accounts[payer].lamports = @ - lamports]

\* the ledger can accept a transaction paid by payer that spends lamports
CanPay(s, payer, lamports) ==
    IF payer \in DOMAIN s.accounts THEN s.accounts[payer].lamports >= lamports ELSE FALSE

\* the mint at addr, when one is initialized there
MintAt(s, addr) ==
    IF addr \in DOMAIN s.accounts
    THEN IF s.accounts[addr].owner = TokenProgramId
         THEN Mint_unpack(s.accounts[addr].data)
         ELSE Err("IncorrectProgramId")
    ELSE Err("AccountNotFound")

\* the token account at addr, when one is initialized there
TokenAccountAt(s, addr) ==
    IF addr \in DOMAIN s.accounts
    THEN IF s.accounts[addr].owner = TokenProgramId
         THEN TokenAccount_unpack(s.accounts[addr].data)
         ELSE Err("IncorrectProgramId")
    ELSE Err("AccountNotFound")

\* TestHelpers::create_funded_account: airdrop to a new keypair; out is the
\* ledger after the call and the value returned
create_funded_account(s, keypair, lamports, accepted) ==
    IF accepted
    THEN [svm |-> LiteSVM_set_account(s, pubkey(keypair), Account(lamports, <<>>, SystemProgramId)),
          ret |-> Ok(keypair)]
    ELSE [svm |-> s, ret |-> Err("Failed to airdrop")]

\* create_token_mint sending create_account and initialize_mint as two
\* transactions, of which the ledger may reject the second
create_token_mint_TwoTransactions(s, authority, mint, decimals, accepted) ==
    LET rent == minimum_balance_for_rent_exemption(Mint_LEN)
        created == LiteSVM_set_account(
                       Debit(s, pubkey(authority), rent + TransactionFee(2)),
                       pubkey(mint), Account(rent, Zeros(Mint_LEN), TokenProgramId))
        data == Mint_pack([mint_authority |-> Some(pubkey(authority)), supply |-> 0,
                           decimals |-> decimals, is_initialized |-> TRUE,
                           freeze_authority |-> None])
    IN IF pubkey(authority) \notin DOMAIN s.accounts
       THEN [svm |-> s, ret |-> Err("Failed to create mint")]
       ELSE IF accepted
            THEN [svm |-> LiteSVM_set_account(created, pubkey(mint),
                                              Account(rent, data, TokenProgramId)),
                  ret |-> Ok(mint)]
            ELSE [svm |-> created, ret |-> Err("Failed to create mint")]

\* TestHelpers::create_token_mint: create_account and initialize_mint in one
\* transaction paid by the authority, for the new keypair mint
create_token_mint(s, authority, mint, decimals, accepted) ==
    LET rent == minimum_balance_for_rent_exemption(Mint_LEN)
        data == Mint_pack([mint_authority |-> Some(pubkey(authority)), supply |-> 0,
                           decimals |-> decimals, is_initialized |-> TRUE,
                           freeze_authority |-> None])
    IN IF accepted
       THEN [svm |-> LiteSVM_set_account(
                        Debit(s, pubkey(authority), rent + TransactionFee(2)),
                        pubkey(mint), Account(rent, data, TokenProgramId)),
             ret |-> Ok(mint)]
       ELSE [svm |-> s, ret |-> Err("Failed to create mint")]

\* TestHelpers::create_associated_token_account: one transaction paid by owner
create_associated_token_account(s, mint, owner, accepted) ==
    LET ata == get_associated_token_address(pubkey(owner), mint)
        rent == minimum_balance_for_rent_exemption(Account_LEN)
        data == TokenAccount_pack([mint |-> mint, owner |-> pubkey(owner), amount |-> 0,
                                   delegate |-> None, state |-> 1, is_native |-> None,
                                   delegated_amount |-> 0, close_authority |-> None])
    IN IF accepted
       THEN [svm |-> LiteSVM_set_account(
                        Debit(s, pubkey(owner), rent + TransactionFee(1)),
                        ata, Account(rent, data, TokenProgramId)),
             ret |-> Ok(ata)]
       ELSE [svm |-> s, ret |-> Err("Failed to create ATA")]

\* the packed data with the u64 at bytes first..first+7 replaced
WithU64At(data, first, n) ==
    SubSeq(data, 1, first - 1) \o U64LE(n) \o SubSeq(data, first + 8, Len(data))

\* TestHelpers::mint_to: one transaction paid by the authority; the token
\* program adds amount to the mint's supply and to the account's amount
mint_to(s, mint, account, authority, amount, accepted) ==
    IF accepted
    THEN LET paid == Debit(s, pubkey(authority), TransactionFee(1))
             supply == MintAt(s, mint).value.supply
             held == TokenAccountAt(s, account).value.amount
         IN [svm |-> [paid EXCEPT
                        !.accounts[mint].data = WithU64At(@, 37, supply + amount),
                        !.accounts[account].data = WithU64At(@, 65, held + amount)],
             ret |-> Ok("unit")]
    ELSE [svm |-> s, ret |-> Err("Failed to mint tokens")]

\* AssertionHelpers for LiteSVM :: assert_account_closed
LiteSVM_assert_account_closed(s, addr) ==
    LET account == LiteSVM_get_account(s, addr)
    IN IF account = None
       THEN "pass"
       ELSE IF account.value.lamports = 0 /\ account.value.data = <<>>
       THEN "pass"
       ELSE "panic"

\* assert_account_closed that looks at the lamports alone
AnchorContext_assert_account_closed_LamportsOnly(s, addr) ==
    LET account == LiteSVM_get_account(s, addr)
    IN IF account = None
       THEN "pass"
       ELSE IF account.value.lamports = 0 THEN "pass" ELSE "panic"

\* AssertionHelpers for AnchorContext :: assert_account_closed
AnchorContext_assert_account_closed(s, addr) ==
    LET got == LiteSVM_get_account(s, addr)
    IN IF got = None
       THEN "pass"
       ELSE IF got.value.lamports = 0 /\ got.value.data = <<>>
       THEN "pass"
       ELSE "panic"

\* AssertionHelpers for LiteSVM :: assert_token_balance
LiteSVM_assert_token_balance(s, token_account, expected) ==
    LET account == LiteSVM_get_account(s, token_account)
    IN IF account = None
       THEN "panic"
       ELSE LET token_data == TokenAccount_unpack(account.value.data)
            IN IF token_data.kind = "Err"
               THEN "panic"
               ELSE IF token_data.value.amount = expected THEN "pass" ELSE "panic"

\* AssertionHelpers for AnchorContext :: assert_token_balance_with_msg
AnchorContext_assert_token_balance_with_msg(s, token_account, expected) ==
    LET got == LiteSVM_get_account(s, token_account)
    IN IF got = None
       THEN IF expected = 0 THEN "pass" ELSE "panic"
       ELSE LET token_state == TokenAccount_unpack(got.value.data)
            IN IF token_state.kind = "Err"
               THEN "panic"
               ELSE IF token_state.value.amount = expected THEN "pass" ELSE "panic"

\* AssertionHelpers for AnchorContext :: assert_token_balance
AnchorContext_assert_token_balance(s, token_account, expected) ==
    AnchorContext_assert_token_balance_with_msg(s, token_account, expected)

\* assert_sol_balance that takes the account out of the Option with a panic
LiteSVM_assert_sol_balance_RequiresAccount(s, addr, expected) ==
    LET account == LiteSVM_get_account(s, addr)
    IN IF account = None
       THEN "panic"
       ELSE IF account.value.lamports = expected THEN "pass" ELSE "panic"

\* AssertionHelpers for LiteSVM :: assert_sol_balance
LiteSVM_assert_sol_balance(s, addr, expected) ==
    LET account == LiteSVM_get_account(s, addr)
        actual == IF account = None THEN 0 ELSE account.value.lamports
    IN IF actual = expected THEN "pass" ELSE "panic"

\* assert_mint_supply with assert!(supply >= expected) for assert_eq!
LiteSVM_assert_mint_supply_AtLeast(s, mint, expected) ==
    LET account == LiteSVM_get_account(s, mint)
    IN IF account = None
       THEN "panic"
       ELSE LET mint_data == Mint_unpack(account.value.data)
            IN IF mint_data.kind = "Err"
               THEN "panic"
               ELSE IF mint_data.value.supply >= expected THEN "pass" ELSE "panic"

\* AssertionHelpers for LiteSVM :: assert_mint_supply
LiteSVM_assert_mint_supply(s, mint, expected) ==
    LET account == LiteSVM_get_account(s, mint)
    IN IF account = None
       THEN "panic"
       ELSE LET mint_data == Mint_unpack(account.value.data)
            IN IF mint_data.kind = "Err"
               THEN "panic"
               ELSE IF mint_data.value.supply = expected THEN "pass" ELSE "panic"

\* the three-argument create_token_account with both instructions in one
\* transaction
AnchorContext_create_token_account_OneTransaction(s, owner, mint, mint_amount, accepted) ==
    LET ata == get_associated_token_address(pubkey(owner), mint)
        created == create_associated_token_account(s, mint, owner, TRUE).svm
    IN IF mint_amount = None
       THEN IF accepted[1]
            THEN [svm |-> created, ret |-> Ok(ata), txs |-> <<<<"create_associated_token_account">>>>]
            ELSE [svm |-> s, ret |-> Err("Transaction failed"),
                  txs |-> <<<<"create_associated_token_account">>>>]
       ELSE IF accepted[1] /\ accepted[2]
            THEN [svm |-> mint_to(created, mint, ata, mint_amount.value.authority,
                                  mint_amount.value.amount, TRUE).svm,
                  ret |-> Ok(ata),
                  txs |-> <<<<"create_associated_token_account", "mint_to">>>>]
            ELSE [svm |-> s, ret |-> Err("Transaction failed"),
                  txs |-> <<<<"create_associated_token_account", "mint_to">>>>]

\* TestHelpers for AnchorContext (src/src/test_helpers.rs) :: create_token_account;
\* accepted holds what the ledger does with the first and with the second
\* transaction, txs the instructions of each transaction submitted, in order
AnchorContext_create_token_account(s, owner, mint, mint_amount, accepted) ==
    LET ata == get_associated_token_address(pubkey(owner), mint)
        first == create_associated_token_account(s, mint, owner, accepted[1])
    IN IF first.ret.kind = "Err"
       THEN [svm |-> first.svm, ret |-> Err("Transaction failed"),
             txs |-> <<<<"create_associated_token_account">>>>]
       ELSE IF mint_amount = None
            THEN [svm |-> first.svm, ret |-> Ok(ata),
                  txs |-> <<<<"create_associated_token_account">>>>]
            ELSE LET second == mint_to(first.svm, mint, ata, mint_amount.value.authority,
                                       mint_amount.value.amount, accepted[2])
                 IN [svm |-> second.svm,
                     ret |-> IF second.ret.kind = "Err"
                             THEN Err("Transaction failed")
                             ELSE Ok(ata),
                     txs |-> <<<<"create_associated_token_account">>, <<"mint_to">>>>]

(***************************************************************************)
(* The assertion runs: a test funds an authority, creates a mint and a     *)
(* token account, mints, sets an account directly, and asserts.            *)
(***************************************************************************)
\* the amounts minted at a time
MintAmounts == {500, 1000}

\* the balances the assertions expect
ExpectedAmounts == {0, 500, 1000, 1500, 2000}

\* the addresses the assertions look at
AssertAddrs == {"ata", "vault", "mint"}

\* the addresses and the lamports assert_sol_balance is called with
SolAddrs == {"alice", "vault", "unknown"}
ExpectedLamports == {0, 1000000, 1000000000}

\* the accounts a test puts on the ledger with set_account
SetAccountValues ==
    {Account(0, <<>>, SystemProgramId),
     Account(1000000, <<>>, SystemProgramId),
     Account(0, <<9, 9, 9, 9, 9, 9, 9, 9>>, ProgramId),
     Account(1000000, <<9, 9, 9, 9, 9, 9, 9, 9>>, ProgramId),
     Account(minimum_balance_for_rent_exemption(Account_LEN), Zeros(Account_LEN), TokenProgramId)}

InitAssert ==
    /\ svm = LiteSVM_new
    /\ lastCall = None
    /\ ret = None
    /\ chk = None
    /\ BuilderIdle

\* the effect of a helper call that gave out (svm and ret) on the test's state
Helped(op, out) ==
    /\ svm' = out.svm
    /\ ret' = out.ret
    /\ lastCall' = [op |-> op, before |-> svm]
    /\ chk' = None
    /\ UNCHANGED builderVars

CreateFundedAccount ==
    /\ Alive
    /\ "alice" \notin DOMAIN svm.accounts
    /\ \E accepted \in BOOLEAN :
          Helped("create_funded_account",
                 create_funded_account(svm, "alice", 1000000000, accepted))

CreateTokenMint ==
    /\ Alive
    /\ "mint" \notin DOMAIN svm.accounts
    /\ \E accepted \in BOOLEAN :
          /\ accepted =>
                CanPay(svm, "alice", minimum_balance_for_rent_exemption(Mint_LEN) + TransactionFee(2))
          /\ Helped("create_token_mint", create_token_mint(svm, "alice", "mint", 9, accepted))

CreateAssociatedTokenAccount ==
    /\ Alive
    /\ \E accepted \in BOOLEAN :
          /\ accepted =>
                /\ CanPay(svm, "alice",
                          minimum_balance_for_rent_exemption(Account_LEN) + TransactionFee(1))
                /\ MintAt(svm, "mint").kind = "Ok"
                /\ get_associated_token_address("alice", "mint") \notin DOMAIN svm.accounts
          /\ Helped("create_associated_token_account",
                    create_associated_token_account(svm, "mint", "alice", accepted))

\* mint_to; the amounts of the accepted calls are kept in calls, in call order
MintTo ==
    /\ Alive
    /\ \E amount \in MintAmounts, accepted \in BOOLEAN :
          /\ accepted =>
                /\ CanPay(svm, "alice", TransactionFee(1))
                /\ MintAt(svm, "mint").kind = "Ok"
                /\ TokenAccountAt(svm, "ata").kind = "Ok"
                /\ IF MintAt(svm, "mint").kind = "Ok"
                   THEN MintAt(svm, "mint").value.supply + amount <= MaxSupply
                   ELSE FALSE
          /\ LET out == mint_to(svm, "mint", "ata", "alice", amount, accepted)
             IN /\ svm' = out.svm
                /\ ret' = out.ret
          /\ calls' = IF accepted
                      THEN Append(calls, [method |-> "mint_to", amount |-> amount])
                      ELSE calls
    /\ lastCall' = [op |-> "mint_to", before |-> svm]
    /\ chk' = None
    /\ UNCHANGED <<builder, argsLog, built>>

\* what a test passes as mint_amount to the three-argument create_token_account
MintAmountOptions == {None, Some([amount |-> 500, authority |-> "alice"])}

\* the three-argument create_token_account; the amount of an accepted mint_to
\* is kept in calls, as MintTo keeps it
CtxCreateTokenAccount ==
    /\ Alive
    /\ \E mint_amount \in MintAmountOptions, accepted \in BOOLEAN \X BOOLEAN :
          /\ accepted[1] =>
                /\ CanPay(svm, "alice",
                          minimum_balance_for_rent_exemption(Account_LEN) + TransactionFee(2))
                /\ MintAt(svm, "mint").kind = "Ok"
                /\ get_associated_token_address("alice", "mint") \notin DOMAIN svm.accounts
          /\ accepted[2] =>
                /\ accepted[1]
                /\ mint_amount # None
                /\ IF MintAt(svm, "mint").kind = "Ok" /\ mint_amount # None
                   THEN MintAt(svm, "mint").value.supply + mint_amount.value.amount
                            <= MaxSupply
                   ELSE FALSE
          /\ LET out == AnchorContext_create_token_account(
                            svm, "alice", "mint", mint_amount, accepted)
             IN /\ svm' = out.svm
                /\ ret' = out.ret
                /\ lastCall' = [op |-> "create_token_account", before |-> svm,
                                mint_amount |-> mint_amount, accepted |-> accepted,
                                txs |-> out.txs]
          /\ calls' = IF accepted[2]
                      THEN Append(calls, [method |-> "mint_to",
                                          amount |-> mint_amount.value.amount])
                      ELSE calls
    /\ chk' = None
    /\ UNCHANGED <<builder, argsLog, built>>

SetAccount ==
    /\ Alive
    /\ \E account \in SetAccountValues :
          Helped("set_account",
                 [svm |-> LiteSVM_set_account(svm, "vault", account), ret |-> Ok("unit")])

\* an assertion of implementation impl on the ledger at hand
Asserted(op, impl, addr, arg, outcome) ==
    /\ chk' = [op |-> op, impl |-> impl, addr |-> addr, arg |-> arg, outcome |-> outcome]
    /\ UNCHANGED <<svm, lastCall, ret>>
    /\ UNCHANGED builderVars

SvmAssertAccountClosed ==
    /\ Alive
    /\ \E addr \in AssertAddrs :
          Asserted("assert_account_closed", "LiteSVM", addr, None,
                   LiteSVM_assert_account_closed(svm, addr))

CtxAssertAccountClosed ==
    /\ Alive
    /\ \E addr \in AssertAddrs :
          Asserted("assert_account_closed", "AnchorContext", addr, None,
                   AnchorContext_assert_account_closed(svm, addr))

SvmAssertTokenBalance ==
    /\ Alive
    /\ \E addr \in AssertAddrs, expected \in ExpectedAmounts :
          Asserted("assert_token_balance", "LiteSVM", addr, expected,
                   LiteSVM_assert_token_balance(svm, addr, expected))

CtxAssertTokenBalance ==
    /\ Alive
    /\ \E addr \in AssertAddrs, expected \in ExpectedAmounts :
          Asserted("assert_token_balance", "AnchorContext", addr, expected,
                   AnchorContext_assert_token_balance(svm, addr, expected))

SvmAssertMintSupply ==
    /\ Alive
    /\ \E addr \in AssertAddrs, expected \in ExpectedAmounts :
          Asserted("assert_mint_supply", "LiteSVM", addr, expected,
                   LiteSVM_assert_mint_supply(svm, addr, expected))

SvmAssertSolBalance ==
    /\ Alive
    /\ \E addr \in SolAddrs, expected \in ExpectedLamports :
          Asserted("assert_sol_balance", "LiteSVM", addr, expected,
                   LiteSVM_assert_sol_balance(svm, addr, expected))

NextAssert ==
    \/ CreateFundedAccount
    \/ CreateTokenMint
    \/ CreateAssociatedTokenAccount
    \/ MintTo
    \/ CtxCreateTokenAccount
    \/ SetAccount
    \/ SvmAssertAccountClosed
    \/ CtxAssertAccountClosed
    \/ SvmAssertTokenBalance
    \/ CtxAssertTokenBalance
    \/ SvmAssertMintSupply
    \/ SvmAssertSolBalance

SpecAssert == InitAssert /\ [][NextAssert]_vars

(***************************************************************************)
(* Event parsing (anchor-litesvm, EventHelpers for TransactionResult).     *)
(***************************************************************************)
\* the most log lines a result of the event runs carries
MaxLogLines == 3

\* the alphabet of base64's STANDARD engine
B64Alphabet ==
    <<"A", "B", "C", "D", "E", "F", "G", "H", "I", "J", "K", "L", "M",
      "N", "O", "P", "Q", "R", "S", "T", "U", "V", "W", "X", "Y", "Z",
      "a", "b", "c", "d", "e", "f", "g", "h", "i", "j", "k", "l", "m",
      "n", "o", "p", "q", "r", "s", "t", "u", "v", "w", "x", "y", "z",
      "0", "1", "2", "3", "4", "5", "6", "7", "8", "9", "+", "/">>

\* the symbols of the alphabet
B64Symbols == {B64Alphabet[i] : i \in 1..64}

\* the decode table of the engine: the 6-bit value of each symbol
B64DecodeTable == [c \in B64Symbols |-> (CHOOSE i \in 1..64 : B64Alphabet[i] = c) - 1]

\* the 6-bit value of a symbol of the alphabet
B64Value(c) == B64DecodeTable[c]

\* general_purpose::STANDARD.encode, as the program's emit! writes event data
B64Encode(bytes) ==
    LET n == Len(bytes)
        groups == (n + 2) \div 3
        pad == (3 - (n % 3)) % 3
        b(i) == IF i <= n THEN bytes[i] ELSE 0
        sextet(j) ==
            LET base == 3 * ((j - 1) \div 4)
                r == (j - 1) % 4
            IN CASE r = 0 -> b(base + 1) \div 4
                 [] r = 1 -> (b(base + 1) % 4) * 16 + b(base + 2) \div 16
                 [] r = 2 -> (b(base + 2) % 16) * 4 + b(base + 3) \div 64
                 [] r = 3 -> b(base + 3) % 64
    IN [j \in 1..(4 * groups) |->
           IF j > 4 * groups - pad THEN "=" ELSE B64Alphabet[sextet(j) + 1]]

\* general_purpose::STANDARD.decode: padded input of a multiple of four
\* symbols, every symbol of the alphabet, no stray bits in the last symbol
B64Decode(chars) ==
    LET n == Len(chars)
        pad == IF n < 2 THEN 0
               ELSE IF chars[n] # "=" THEN 0
               ELSE IF chars[n - 1] = "=" THEN 2 ELSE 1
        m == n - pad
        v(i) == IF i <= m THEN B64Value(chars[i]) ELSE 0
        octet(k) ==
            LET base == 4 * ((k - 1) \div 3)
                r == (k - 1) % 3
            IN CASE r = 0 -> v(base + 1) * 4 + v(base + 2) \div 16
                 [] r = 1 -> (v(base + 2) % 16) * 16 + v(base + 3) \div 4
                 [] r = 2 -> (v(base + 3) % 4) * 64 + v(base + 4)
    IN IF \E i \in 1..m : chars[i] \notin B64Symbols
       THEN Err("InvalidByte")
       ELSE IF n % 4 # 0
       THEN Err("InvalidPadding")
       ELSE IF (pad = 2 /\ v(m) % 16 # 0) \/ (pad = 1 /\ v(m) % 4 # 0)
       THEN Err("InvalidLastSymbol")
       ELSE Ok([k \in 1..((n \div 4) * 3 - pad) |-> octet(k)])

\* the event of the documentation: TransferEvent { from, to, amount }
TransferEvent ==
    [name |-> "TransferEvent",
     DISCRIMINATOR |-> <<100, 10, 46, 113, 8, 28, 179, 125>>,
     fields |-> <<"Pubkey", "Pubkey", "u64">>]

\* an event without fields
CloseEvent ==
    [name |-> "CloseEvent",
     DISCRIMINATOR |-> <<71, 164, 179, 117, 143, 207, 62, 216>>,
     fields |-> <<>>]

EventTypes == {TransferEvent, CloseEvent}

\* the event type named name
EventType(name) == CHOOSE T \in EventTypes : T.name = name

\* the borsh width of a field
FieldWidth(kind) == IF kind = "Pubkey" THEN 32 ELSE 8

\* the offset at which field i of a field list starts
RECURSIVE FieldOffset(_, _)
FieldOffset(fields, i) ==
    IF i = 1 THEN 0 ELSE FieldOffset(fields, i - 1) + FieldWidth(fields[i - 1])

\* T::deserialize(&mut slice): the fields are read one after another from the
\* front of the slice; running out of input is an error, input left over is not
AnchorDeserialize_deserialize(T, slice) ==
    LET n == Len(T.fields)
        need == IF n = 0 THEN 0 ELSE FieldOffset(T.fields, n) + FieldWidth(T.fields[n])
        field(i) ==
            LET from == FieldOffset(T.fields, i)
                raw == SubSeq(slice, from + 1, from + FieldWidth(T.fields[i]))
            IN IF T.fields[i] = "u64" THEN U64_from_le_bytes(raw) ELSE raw
    IN IF Len(slice) < need
       THEN Err("Unexpected length of input")
       ELSE Ok([name |-> T.name, values |-> [i \in 1..n |-> field(i)]])

\* EventError::Base64Error
Base64Error(e) == [variant |-> "Base64Error", source |-> e]

\* EventError::AnchorError
AnchorError(msg) == [variant |-> "AnchorError", message |-> msg]

\* the loop of parse_events over the log lines left, with the events so far
RECURSIVE parse_events_loop(_, _, _)
parse_events_loop(logs, T, events) ==
    IF logs = <<>>
    THEN Ok(events)
    ELSE LET log == Head(logs)
         IN IF log.prefix # "Program data: "
            THEN parse_events_loop(Tail(logs), T, events)
            ELSE LET decoded == B64Decode(log.rest)
                 IN IF decoded.kind = "Err"
                    THEN Err(Base64Error(decoded.error))
                    ELSE IF Len(decoded.value) < 8
                    THEN parse_events_loop(Tail(logs), T, events)
                    ELSE IF SubSeq(decoded.value, 1, 8) # T.DISCRIMINATOR
                    THEN parse_events_loop(Tail(logs), T, events)
                    ELSE LET event == AnchorDeserialize_deserialize(
                                          T, SubSeq(decoded.value, 9, Len(decoded.value)))
                         IN IF event.kind = "Ok"
                            THEN parse_events_loop(Tail(logs), T, Append(events, event.value))
                            ELSE Err(AnchorError(event.error))

\* the sequence s back to front
Reversed(s) == [i \in 1..Len(s) |-> s[Len(s) + 1 - i]]

\* parse_events that puts each event in front of the ones found before
parse_events_Prepend(r, T) ==
    LET out == parse_events_loop(TransactionResult_logs(r), T, <<>>)
    IN IF out.kind = "Ok" THEN Ok(Reversed(out.value)) ELSE out

\* parse_events that passes over a line it cannot read and returns the events
\* of the others
parse_events_SkipsFailures(r, T) ==
    LET reads(log) ==
            IF log.prefix # "Program data: "
            THEN FALSE
            ELSE LET decoded == B64Decode(log.rest)
                 IN IF decoded.kind = "Err"
                    THEN FALSE
                    ELSE IF Len(decoded.value) < 8
                    THEN FALSE
                    ELSE IF SubSeq(decoded.value, 1, 8) # T.DISCRIMINATOR
                    THEN FALSE
                    ELSE AnchorDeserialize_deserialize(
                             T, SubSeq(decoded.value, 9, Len(decoded.value))).kind = "Ok"
        read == SelectSeq(TransactionResult_logs(r), reads)
    IN Ok([i \in 1..Len(read) |->
              AnchorDeserialize_deserialize(
                  T, SubSeq(B64Decode(read[i].rest).value, 9,
                            Len(B64Decode(read[i].rest).value))).value])

\* EventHelpers::parse_events::<T>
parse_events(r, T) == parse_events_loop(TransactionResult_logs(r), T, <<>>)

\* EventError::EventNotFound
EventNotFound == [variant |-> "EventNotFound"]

\* EventHelpers::parse_event::<T>: parse_events()?.into_iter().next().ok_or(..)
parse_event(r, T) ==
    LET out == parse_events(r, T)
    IN IF out.kind = "Err"
       THEN out
       ELSE IF out.value = <<>> THEN Err(EventNotFound) ELSE Ok(Head(out.value))

\* has_event with unwrap_or(true): an unreadable log counts as an event
has_event_TrueOnError(r, T) ==
    LET out == parse_events(r, T)
    IN IF out.kind = "Ok" THEN out.value # <<>> ELSE TRUE

\* EventHelpers::has_event::<T>: map(|events| !events.is_empty()).unwrap_or(false)
has_event(r, T) ==
    LET out == parse_events(r, T)
    IN IF out.kind = "Ok" THEN out.value # <<>> ELSE FALSE

\* EventHelpers::assert_event_emitted::<T>
assert_event_emitted(r, T) ==
    LET out == parse_events(r, T)
    IN IF out.kind = "Ok"
       THEN IF out.value # <<>> THEN "pass" ELSE "panic"
       ELSE "panic"

\* EventHelpers::assert_event_count::<T>
assert_event_count(r, T, expected_count) ==
    LET out == parse_events(r, T)
    IN IF out.kind = "Ok"
       THEN IF Len(out.value) = expected_count THEN "pass" ELSE "panic"
       ELSE "panic"

(***************************************************************************)
(* The event runs: a transaction logs some lines, the test parses them.    *)
(***************************************************************************)
\* text as a sequence of one-character strings
LogText == <<"I", "n", "s", "t", "r", "u", "c", "t", "i", "o", "n", ":", " ", "T", "a", "k", "e">>

\* the data a program logs for a TransferEvent of amount
TransferData(amount) ==
    TransferEvent.DISCRIMINATOR \o Pubkey_to_bytes("alice") \o Pubkey_to_bytes("vault")
        \o U64LE(amount)

\* the lines a transaction of the runs may log
EventLogLines ==
    {LogLine("Program log: ", LogText),
     LogLine("Program data: ", B64Encode(TransferData(1000000))),
     LogLine("Program data: ", B64Encode(TransferData(42))),
     LogLine("Program data: ", B64Encode(TransferEvent.DISCRIMINATOR \o <<1, 2>>)),
     LogLine("Program data: ", B64Encode(CloseEvent.DISCRIMINATOR)),
     LogLine("Program data: ", B64Encode(<<1, 2, 3>>)),
     LogLine("Program data: ", <<"n", "o", "t", " ", "b", "a", "s", "e", "6", "4", "!">>)}

\* the log lists of at most MaxLogLines lines
EventLogs == UNION {[1..n -> EventLogLines] : n \in 0..MaxLogLines}

InitEvents ==
    /\ svm = LiteSVM_new
    /\ lastCall = None
    /\ ret = None
    /\ chk = None
    /\ BuilderIdle

\* an execution returned a result with logs; a run looks at one result
ExecuteLogging ==
    /\ ret = None
    /\ \E logs \in EventLogs :
          /\ ret' = Ok(TransactionResult_new(TransactionMetadata(logs, 1500), None))
          /\ lastCall' = [op |-> "execute_instruction", logs |-> logs]
    /\ chk' = None
    /\ UNCHANGED svm
    /\ UNCHANGED builderVars

\* The helpers below read the result and change nothing, so what one returns
\* does not depend on the helpers called before it: each is run on the result
\* as the execution returned it.
\* result.parse_events::<T>()
ParseEvents ==
    /\ Alive /\ HasResult /\ chk = None
    /\ \E T \in EventTypes :
          chk' = [op |-> "parse_events", arg |-> T.name, outcome |-> "returned",
                  value |-> parse_events(ret.value, T)]
    /\ UNCHANGED <<svm, lastCall, ret>>
    /\ UNCHANGED builderVars

\* result.parse_event::<T>()
ParseEvent ==
    /\ Alive /\ HasResult /\ chk = None
    /\ \E T \in EventTypes :
          chk' = [op |-> "parse_event", arg |-> T.name, outcome |-> "returned",
                  value |-> parse_event(ret.value, T)]
    /\ UNCHANGED <<svm, lastCall, ret>>
    /\ UNCHANGED builderVars

\* result.has_event::<T>()
HasEvent ==
    /\ Alive /\ HasResult /\ chk = None
    /\ \E T \in EventTypes :
          chk' = [op |-> "has_event", arg |-> T.name,
                  outcome |-> IF has_event(ret.value, T) THEN "true" ELSE "false"]
    /\ UNCHANGED <<svm, lastCall, ret>>
    /\ UNCHANGED builderVars

\* result.assert_event_emitted::<T>()
AssertEventEmitted ==
    /\ Alive /\ HasResult /\ chk = None
    /\ \E T \in EventTypes :
          chk' = [op |-> "assert_event_emitted", arg |-> T.name,
                  outcome |-> assert_event_emitted(ret.value, T)]
    /\ UNCHANGED <<svm, lastCall, ret>>
    /\ UNCHANGED builderVars

\* result.assert_event_count::<T>(n)
AssertEventCount ==
    /\ Alive /\ HasResult /\ chk = None
    /\ \E T \in EventTypes, n \in 0..MaxLogLines :
          chk' = [op |-> "assert_event_count", arg |-> T.name, count |-> n,
                  outcome |-> assert_event_count(ret.value, T, n)]
    /\ UNCHANGED <<svm, lastCall, ret>>
    /\ UNCHANGED builderVars

NextEvents ==
    \/ ExecuteLogging
    \/ ParseEvents
    \/ ParseEvent
    \/ HasEvent
    \/ AssertEventEmitted
    \/ AssertEventCount

SpecEvents == InitEvents /\ [][NextEvents]_vars

(***************************************************************************)
(* The environment builder AnchorLiteSVM (src/src/builder.rs). The         *)
(* builder's own ledger, self.svm, is the variable svm.                    *)
(***************************************************************************)
\* the number of calls a chain on the environment builder is followed to
MaxDeployCalls == 3

\* the loader that owns a deployed program's account
BpfLoaderId == "BPFLoader2111111111111111111111111111111111"

\* the (program id, program bytes) pairs the chains deploy
ProgramEntries == {<<"program", <<0>>>>, <<"program2", <<0, 0>>>>}

\* the vectors passed to deploy_programs: of length 0, 1 and 2
ProgramLists ==
    {<<>>} \cup {<<e>> : e \in ProgramEntries}
           \cup {<<e1, e2>> : e1 \in ProgramEntries, e2 \in ProgramEntries}

\* the ids passed to with_primary_program: the deployed ones and one never deployed
PrimaryIds == {"program", "program2", "program3"}

\* AnchorLiteSVM::new
AnchorLiteSVM_new ==
    [type |-> "AnchorLiteSVM", programs |-> <<>>, primary_program_id |-> None]

\* deploy_program that makes every deployed program the primary one
AnchorLiteSVM_deploy_program_LastIsPrimary(b, program_id, program_bytes) ==
    [b EXCEPT !.primary_program_id = Some(program_id),
              !.programs = Append(@, <<program_id, program_bytes>>)]

\* AnchorLiteSVM::deploy_program
AnchorLiteSVM_deploy_program(b, program_id, program_bytes) ==
    [b EXCEPT !.primary_program_id = IF @ = None THEN Some(program_id) ELSE @,
              !.programs = Append(@, <<program_id, program_bytes>>)]

\* AnchorLiteSVM::deploy_programs
AnchorLiteSVM_deploy_programs(b, programs) ==
    [b EXCEPT !.primary_program_id =
                  IF @ = None /\ programs # <<>> THEN Some(programs[1][1]) ELSE @,
              !.programs = @ \o programs]

\* AnchorLiteSVM::with_primary_program
AnchorLiteSVM_with_primary_program(b, program_id) ==
    [b EXCEPT !.primary_program_id = Some(program_id)]

\* LiteSVM::add_program: an executable account at program_id holding the bytes
LiteSVM_add_program(s, program_id, program_bytes) ==
    LiteSVM_set_account(s, program_id,
        [lamports |-> minimum_balance_for_rent_exemption(Len(program_bytes)),
         data |-> program_bytes, owner |-> BpfLoaderId, executable |-> TRUE])

\* for (program_id, program_bytes) in self.programs { self.svm.add_program(..) }
RECURSIVE AddPrograms(_, _)
AddPrograms(s, programs) ==
    IF programs = <<>>
    THEN s
    ELSE AddPrograms(LiteSVM_add_program(s, Head(programs)[1], Head(programs)[2]),
                     Tail(programs))

\* AnchorContext::new: the context owns the ledger, targets program_id and pays
\* with a payer it creates (its airdrop of 10 SOL is outside TLC's integers and
\* is left out of accounts, as in LiteSVM_new above)
AnchorContext_new(s, program_id) ==
    [svm |-> s, program_id |-> program_id, payer |-> CtxPayer]

\* build that asserts on the primary program id instead of the program list
AnchorLiteSVM_build_AssertsPrimary(b, s) ==
    IF b.primary_program_id = None
    THEN Panic("At least one program must be deployed")
    ELSE Ok(AnchorContext_new(AddPrograms(s, b.programs), b.primary_program_id.value))

\* AnchorLiteSVM::build
AnchorLiteSVM_build(b, s) ==
    IF b.programs = <<>>
    THEN Panic("At least one program must be deployed")
    ELSE IF b.primary_program_id = None
         THEN Panic("Primary program ID should be set")
         ELSE Ok(AnchorContext_new(AddPrograms(s, b.programs),
                                   b.primary_program_id.value))

InitDeploy ==
    /\ builder = AnchorLiteSVM_new
    /\ calls = <<>>
    /\ argsLog = None
    /\ built = None
    /\ svm = LiteSVM_new
    /\ lastCall = None
    /\ ret = None
    /\ chk = None

\* the chain has not been built and may take one more call
CanDeploy == built = None /\ Len(calls) < MaxDeployCalls

\* the effect of a chained call that gave the builder b
Deployed(call, b) ==
    /\ builder' = b
    /\ calls' = Append(calls, call)
    /\ UNCHANGED <<argsLog, built>>
    /\ UNCHANGED ledgerVars

DeployProgram ==
    /\ CanDeploy
    /\ \E e \in ProgramEntries :
          Deployed([method |-> "deploy_program", programs |-> <<e>>],
                   AnchorLiteSVM_deploy_program(builder, e[1], e[2]))

DeployPrograms ==
    /\ CanDeploy
    /\ \E programs \in ProgramLists :
          Deployed([method |-> "deploy_programs", programs |-> programs],
                   AnchorLiteSVM_deploy_programs(builder, programs))

WithPrimaryProgram ==
    /\ CanDeploy
    /\ \E program_id \in PrimaryIds :
          Deployed([method |-> "with_primary_program", program_id |-> program_id],
                   AnchorLiteSVM_with_primary_program(builder, program_id))

\* build consumes the builder; the context it returns owns the ledger
Build ==
    /\ built = None
    /\ built' = AnchorLiteSVM_build(builder, svm)
    /\ svm' = IF built'.kind = "Ok" THEN built'.value.svm ELSE svm
    /\ UNCHANGED <<builder, calls, argsLog, lastCall, ret, chk>>

NextDeploy ==
    \/ DeployProgram
    \/ DeployPrograms
    \/ WithPrimaryProgram
    \/ Build

SpecDeploy == InitDeploy /\ [][NextDeploy]_vars

(***************************************************************************)
(* Reading Anchor accounts (crates/anchor-litesvm/src/account.rs).         *)
(***************************************************************************)
\* the account type of the tests: TestAccount { value: u64, owner: Pubkey }
TestAccount ==
    [name |-> "TestAccount",
     DISCRIMINATOR |-> <<1, 2, 3, 4, 5, 6, 7, 8>>,
     fields |-> <<"u64", "Pubkey">>]

\* AccountError::AccountNotFound
AccountNotFound(address) == [variant |-> "AccountNotFound", address |-> address]

\* AccountError::DeserializationError(e.to_string()); the text is kept as the
\* name of the anchor error code it renders
DeserializationError(e) == [variant |-> "DeserializationError", message |-> e]

\* AccountDeserialize::try_deserialize
AccountDeserialize_try_deserialize(T, buf) ==
    IF Len(buf) < 8
    THEN Err("AccountDidNotDeserialize")
    ELSE IF SubSeq(buf, 1, 8) # T.DISCRIMINATOR
         THEN Err("AccountDiscriminatorMismatch")
         ELSE LET out == AnchorDeserialize_deserialize(T, SubSeq(buf, 9, Len(buf)))
              IN IF out.kind = "Err" THEN Err("AccountDidNotDeserialize") ELSE out

\* AccountDeserialize::try_deserialize_unchecked
AccountDeserialize_try_deserialize_unchecked(T, buf) ==
    IF Len(buf) < 8
    THEN Err("AccountDidNotDeserialize")
    ELSE LET out == AnchorDeserialize_deserialize(T, SubSeq(buf, 9, Len(buf)))
         IN IF out.kind = "Err" THEN Err("AccountDidNotDeserialize") ELSE out

\* get_anchor_account calling try_deserialize_unchecked
get_anchor_account_SkipsCheck(s, T, address) ==
    LET account == LiteSVM_get_account(s, address)
    IN IF account = None
       THEN Err(AccountNotFound(address))
       ELSE LET out == AccountDeserialize_try_deserialize_unchecked(T, account.value.data)
            IN IF out.kind = "Err" THEN Err(DeserializationError(out.error)) ELSE out

\* get_anchor_account::<T>
get_anchor_account(s, T, address) ==
    LET account == LiteSVM_get_account(s, address)
    IN IF account = None
       THEN Err(AccountNotFound(address))
       ELSE LET out == AccountDeserialize_try_deserialize(T, account.value.data)
            IN IF out.kind = "Err" THEN Err(DeserializationError(out.error)) ELSE out

\* get_anchor_account_unchecked::<T>
get_anchor_account_unchecked(s, T, address) ==
    LET account == LiteSVM_get_account(s, address)
    IN IF account = None
       THEN Err(AccountNotFound(address))
       ELSE LET out == AccountDeserialize_try_deserialize_unchecked(T, account.value.data)
            IN IF out.kind = "Err" THEN Err(DeserializationError(out.error)) ELSE out

\* BorshSerialize of TestAccount { value, owner }
TestAccountBody(value, owner) == U64LE(value) \o Pubkey_to_bytes(owner)

\* the data of the accounts the tests set: the discriminator and a body, a wrong
\* discriminator and a body, a body followed by spare bytes, a body cut short,
\* fewer than 8 bytes, and no data
AnchorAccountData ==
    {TestAccount.DISCRIMINATOR \o TestAccountBody(42, "alice"),
     <<9, 9, 9, 9, 9, 9, 9, 9>> \o TestAccountBody(99, "alice"),
     TestAccount.DISCRIMINATOR \o TestAccountBody(100, "vault") \o <<0, 0>>,
     TestAccount.DISCRIMINATOR \o U64LE(42),
     <<1, 2, 3, 4>>,
     <<>>}

\* the addresses the tests set and read
AnchorAddrs == {"alice", "vault"}

InitAccount ==
    /\ svm = LiteSVM_new
    /\ lastCall = None
    /\ ret = None
    /\ chk = None
    /\ BuilderIdle

SetAnchorAccount ==
    /\ \E address \in AnchorAddrs, data \in AnchorAccountData :
          /\ svm' = LiteSVM_set_account(svm, address, Account(1000000, data, ProgramId))
          /\ lastCall' = [op |-> "set_account", address |-> address, before |-> svm]
    /\ ret' = Ok("unit")
    /\ chk' = None
    /\ UNCHANGED builderVars

\* the reads take the ledger by shared reference
GetAnchorAccount ==
    /\ \E address \in AnchorAddrs :
          /\ ret' = get_anchor_account(svm, TestAccount, address)
          /\ lastCall' = [op |-> "get_anchor_account", address |-> address, before |-> svm]
    /\ UNCHANGED <<svm, chk>>
    /\ UNCHANGED builderVars

GetAnchorAccountUnchecked ==
    /\ \E address \in AnchorAddrs :
          /\ ret' = get_anchor_account_unchecked(svm, TestAccount, address)
          /\ lastCall' = [op |-> "get_anchor_account_unchecked", address |-> address,
                          before |-> svm]
    /\ UNCHANGED <<svm, chk>>
    /\ UNCHANGED builderVars

NextAccount ==
    \/ SetAnchorAccount
    \/ GetAnchorAccount
    \/ GetAnchorAccountUnchecked

SpecAccount == InitAccount /\ [][NextAccount]_vars

(***************************************************************************)
(* The clock: get_current_slot and advance_slot of TestHelpers over the    *)
(* ledger's Clock sysvar. A slot is a u64. The slots looked at are the     *)
(* MaxSlot + 1 lowest, written as themselves, and the MaxSlot highest,     *)
(* written as their two's complement: -1 stands for 2^64 - 1, -2 for       *)
(* 2^64 - 2 and so on.                                                     *)
(***************************************************************************)
\* the slots looked at lie within MaxSlot of either end of u64
MaxSlot == 4

\* the largest number of slots passed to advance_slot
MaxAdvance == 3

SlotValues == (0 - MaxSlot) .. MaxSlot

\* a + b on u64, for b in 0 .. MaxAdvance + 1: the wrapped sum and whether the
\* sum passed 2^64
u64_add(a, b) == [value |-> a + b, overflow |-> a < 0 /\ a + b >= 0]

\* a < b on u64
u64_lt(a, b) == IF (a < 0) = (b < 0) THEN a < b ELSE b < 0

\* LiteSVM::get_sysvar::<Clock>().slot
Clock_slot(s) == s.clock.slot

\* LiteSVM::warp_to_slot: the Clock sysvar is stored with the slot given
LiteSVM_warp_to_slot(s, slot) == [s EXCEPT !.clock.slot = slot]

\* TestHelpers::get_current_slot
get_current_slot(s) == Clock_slot(s)

\* the for loop of advance_slot from iteration i on, warps being the slots
\* warped to so far; with overflow checks (a debug build) an overflowing
\* current_slot + i + 1 panics, without them (a release build) it wraps
RECURSIVE advance_slot_loop(_, _, _, _, _, _)
advance_slot_loop(s, current_slot, slots, i, overflow_checks, warps) ==
    IF i = slots
    THEN [svm |-> s, warps |-> warps, ret |-> Ok("unit")]
    ELSE LET first == u64_add(current_slot, i)
             target == u64_add(first.value, 1)
         IN IF overflow_checks /\ (first.overflow \/ target.overflow)
            THEN [svm |-> s, warps |-> warps, ret |-> Panic("attempt to add with overflow")]
            ELSE advance_slot_loop(LiteSVM_warp_to_slot(s, target.value), current_slot,
                                   slots, i + 1, overflow_checks,
                                   Append(warps, target.value))

\* advance_slot warping to current_slot + i for current_slot + i + 1
advance_slot_FromCurrent(s, slots, overflow_checks) ==
    LET out == advance_slot_loop(s, Clock_slot(s), slots, 0, overflow_checks, <<>>)
    IN IF slots = 0
       THEN out
       ELSE [out EXCEPT !.svm = LiteSVM_warp_to_slot(s, out.warps[Len(out.warps)] - 1),
                        !.warps = [k \in 1 .. Len(out.warps) |-> out.warps[k] - 1]]

\* TestHelpers::advance_slot
advance_slot(s, slots, overflow_checks) ==
    advance_slot_loop(s, Clock_slot(s), slots, 0, overflow_checks, <<>>)

\* LiteSVM::new(), with its Clock sysvar at slot 0
InitSlot ==
    /\ svm = [clock |-> [slot |-> 0]] @@ LiteSVM_new
    /\ lastCall = None
    /\ ret = None
    /\ chk = None
    /\ BuilderIdle

\* no panic has unwound the test
NotUnwound == IF ret = None THEN TRUE ELSE ret.kind # "Panic"

\* the test warps the ledger itself
WarpToSlot ==
    /\ NotUnwound
    /\ \E slot \in SlotValues :
          /\ svm' = LiteSVM_warp_to_slot(svm, slot)
          /\ lastCall' = [op |-> "warp_to_slot", before |-> svm, slots |-> slot,
                          warps |-> <<slot>>]
    /\ ret' = Ok("unit")
    /\ chk' = None
    /\ UNCHANGED builderVars

AdvanceSlot ==
    /\ NotUnwound
    /\ \E slots \in 0 .. MaxAdvance, overflow_checks \in BOOLEAN :
          /\ Clock_slot(svm) >= 0 => Clock_slot(svm) + slots <= MaxSlot
          /\ LET out == advance_slot(svm, slots, overflow_checks)
             IN /\ svm' = out.svm
                /\ ret' = out.ret
                /\ lastCall' = [op |-> "advance_slot", before |-> svm, slots |-> slots,
                                warps |-> out.warps]
    /\ chk' = None
    /\ UNCHANGED builderVars

GetCurrentSlot ==
    /\ NotUnwound
    /\ chk' = [op |-> "get_current_slot", outcome |-> get_current_slot(svm)]
    /\ UNCHANGED <<svm, lastCall, ret>>
    /\ UNCHANGED builderVars

NextSlot ==
    \/ WarpToSlot
    \/ AdvanceSlot
    \/ GetCurrentSlot

SpecSlot == InitSlot /\ [][NextSlot]_vars

(***************************************************************************)
(* Claims about the builders (checked under SpecBuilder).                  *)
(***************************************************************************)
\* C1: the terminal operation of either builder (InstructionBuilder::build,
\* RequestBuilder::instructions) returns an error exactly when args was never
\* called on that builder: Err whenever args was not called, however many
\* accounts were added, and Ok whenever args was called.
C1_TerminalErrIffArgsNeverCalled ==
    built # None => (built.kind = "Err" <=> argsLog = None)

\* the accounts of the builder's list agree, position by position, with the calls
EntriesFollowCalls(metas) ==
    /\ Len(metas) = Len(calls)
    /\ \A i \in 1..Len(calls) : metas[i].pubkey = calls[i].pubkey

C2_State ==
    builder.type = "InstructionBuilder" =>
        /\ EntriesFollowCalls(InstructionBuilder_accounts(builder))
        /\ \A i \in 1..Len(builder.accounts) : builder.accounts[i].name = calls[i].name
        /\ built # None /\ built.kind = "Ok" => EntriesFollowCalls(built.value.accounts)

C2_Step ==
    builder.type = "InstructionBuilder" =>
        /\ Len(builder'.accounts) >= Len(builder.accounts)
        /\ SubSeq(builder'.accounts, 1, Len(builder.accounts)) = builder.accounts

\* C2: for any mix of account-adding calls on an InstructionBuilder, the account
\* list (and the account list of the built instruction) has exactly one entry per
\* call, in call order, and no step reorders, removes or merges earlier entries.
C2_OneEntryPerCallInCallOrder == []C2_State /\ [][C2_Step]_vars

\* C2 witness: an instruction built from two entries added by different methods
\* under the same display name.
C2_Witness ==
    /\ built # None /\ built.kind = "Ok"
    /\ Len(calls) = 2
    /\ calls[1].method = "signer" /\ calls[2].method = "account_mut"
    /\ calls[1].name = calls[2].name
    /\ calls[1].pubkey # calls[2].pubkey

\* data is the discriminator of name followed by the encoding of the tuple t
IsPayloadOf(data, name, t) ==
    /\ Len(data) >= 8
    /\ SubSeq(data, 1, 8) = calculate_anchor_discriminator(name)
    /\ SubSeq(data, 9, Len(data)) = TupleArgs_serialize(t)

\* C3: in every reachable state of an InstructionBuilder the payload is empty or
\* begins with the 8-byte discriminator of the instruction name the builder was
\* created with; every instruction build() returns carries that discriminator as
\* its first 8 bytes, followed by the serialized arguments.
C3_PayloadBeginsWithDiscriminator ==
    builder.type = "InstructionBuilder" =>
        /\ \/ builder.data = <<>>
           \/ /\ Len(builder.data) >= 8
              /\ SubSeq(builder.data, 1, 8) =
                    calculate_anchor_discriminator(builder.instruction_name)
        /\ built # None /\ built.kind = "Ok" =>
              /\ argsLog # None
              /\ IsPayloadOf(built.value.data, builder.instruction_name, argsLog.value)

\* C3 witness: an instruction built after accounts were added and args was given
\* a non-empty tuple.
C3_Witness ==
    /\ builder.type = "InstructionBuilder"
    /\ built # None /\ built.kind = "Ok"
    /\ Len(calls) > 0
    /\ Len(built.value.data) = 8 + 24

(***************************************************************************)
(* Claims about the execution adapters and TransactionResult (checked      *)
(* under SpecExec).                                                        *)
(***************************************************************************)
\* the operations that submit instructions for the caller
ExecutionEntryPoints ==
    {"send_instruction", "send_instructions", "execute",
     "execute_instruction", "execute_instructions"}

\* the operations that capture a rejection in a TransactionResult
CapturingOperations ==
    {"send_transaction_result", "send_instruction", "send_instructions",
     "execute_instruction", "execute_instructions"}

\* the last call was op-ish, with an empty signer list, on inputs that build
CalledWithNoSigners ==
    IF lastCall = None
    THEN FALSE
    ELSE /\ lastCall.op \in ExecutionEntryPoints
         /\ lastCall.signers = <<>>
         /\ lastCall.op = "execute" => InstructionBuilder_build(lastCall.input).kind = "Ok"

\* C4: every execution entry point (send_instruction, send_instructions,
\* InstructionBuilder::execute on a builder that builds, AnchorContext's
\* execute_instruction and execute_instructions), called with an empty signer
\* list, returns BuildError("No signers provided") and submits nothing, so the
\* ledger is unchanged.
C4_NoSignersGivesBuildError ==
    CalledWithNoSigners =>
        /\ ret = Err(BuildError("No signers provided"))
        /\ lastCall.tx = None
        /\ svm = lastCall.before

\* the ledger rejected the transaction the last call submitted
LedgerRejected ==
    IF lastCall = None
    THEN FALSE
    ELSE /\ lastCall.op \in CapturingOperations
         /\ IF lastCall.answer = None THEN FALSE ELSE lastCall.answer.value.kind = "Err"

\* C5: when the ledger rejects the submitted transaction, send_transaction_result
\* (and so send_instruction / send_instructions) and AnchorContext's
\* execute_instruction / execute_instructions return Ok with a TransactionResult
\* whose error is set and whose logs and compute units are the ones the ledger
\* reported for the failed execution; the rejection is never returned as Err.
C5_RejectionIsCapturedInResult ==
    LedgerRejected =>
        /\ ret.kind = "Ok"
        /\ TransactionResult_error(ret.value) # None
        /\ TransactionResult_logs(ret.value) = lastCall.answer.value.error.meta.logs
        /\ TransactionResult_compute_units(ret.value) =
              lastCall.answer.value.error.meta.compute_units_consumed

\* C5 witness: send_instructions got a rejection with logs, and returned Ok with them.
C5_Witness ==
    /\ LedgerRejected
    /\ lastCall.op = "send_instructions"
    /\ ret.kind = "Ok"
    /\ Len(TransactionResult_logs(ret.value)) = 2
    /\ TransactionResult_compute_units(ret.value) = 1500

\* C8: for every TransactionResult exactly one of assert_success and
\* assert_failure panics; assert_success passes iff error is none (iff
\* is_success()), assert_failure passes iff error is set; results made by new()
\* are successes and results made by new_failed() are failures.
C8_ExactlyOneOfSuccessAndFailurePanics ==
    HasResult =>
        LET r == ret.value
        IN /\ (TransactionResult_assert_success(r) = "panic")
                  # (TransactionResult_assert_failure(r) = "panic")
           /\ TransactionResult_assert_success(r) = "pass" <=> r.error = None
           /\ TransactionResult_assert_success(r) = "pass" <=> TransactionResult_is_success(r)
           /\ TransactionResult_assert_failure(r) = "pass" <=> r.error # None
           /\ lastCall.op = "new" => TransactionResult_is_success(r)
           /\ lastCall.op = "new_failed" => ~TransactionResult_is_success(r)
           /\ IF chk = None
              THEN TRUE
              ELSE /\ chk.op = "assert_success" => (chk.outcome = "pass" <=> r.error = None)
                   /\ chk.op = "assert_failure" => (chk.outcome = "pass" <=> r.error # None)

\* C8 witness: assert_failure panicked on a result made by new().
C8_Witness ==
    /\ HasResult
    /\ lastCall.op = "new"
    /\ IF chk = None THEN FALSE ELSE chk.op = "assert_failure" /\ chk.outcome = "panic"

\* the ledger rejected the last submitted transaction with custom program error c
RejectedWithCustom(c) ==
    /\ LedgerRejected
    /\ lastCall.answer.value.error.err.variant = "InstructionError"
    /\ lastCall.answer.value.error.err.inner = [variant |-> "Custom", code |-> c]

\* C9: assert_error_code(c), applied to the result that send_transaction_result /
\* execute_instruction produce for a transaction the ledger rejected with custom
\* program error code c, passes; it panics when the transaction succeeded or
\* failed with a different error code.
C9_AssertErrorCodePassesOnThatCode ==
    IF chk = None \/ lastCall = None
    THEN TRUE
    ELSE (chk.op = "assert_error_code" /\ lastCall.op \in CapturingOperations) =>
            (chk.outcome = "pass" <=> RejectedWithCustom(chk.arg))

(***************************************************************************)
(* Claims about the account assertions (checked under SpecAssert).         *)
(***************************************************************************)
\* an assertion named op has just run
JustAsserted(op) == IF chk = None THEN FALSE ELSE chk.op = op

\* the token account at addr unpacks and holds n
HoldsAmount(addr, n) ==
    IF addr \in DOMAIN svm.accounts
    THEN LET t == TokenAccount_unpack(svm.accounts[addr].data)
         IN IF t.kind = "Ok" THEN t.value.amount = n ELSE FALSE
    ELSE FALSE

\* C6: assert_token_balance(addr, N) passes if and only if the token account at
\* addr unpacks to amount == N, or no account exists at addr and N == 0; and
\* this is so for both implementations (on AnchorContext and on LiteSVM).
C6_TokenBalancePassesIffAmountOrAbsentZero ==
    JustAsserted("assert_token_balance") =>
        (chk.outcome = "pass" <=>
            \/ HoldsAmount(chk.addr, chk.arg)
            \/ chk.addr \notin DOMAIN svm.accounts /\ chk.arg = 0)

\* the account at addr is absent, or has zero lamports and empty data
IsClosed(addr) ==
    IF addr \in DOMAIN svm.accounts
    THEN svm.accounts[addr].lamports = 0 /\ svm.accounts[addr].data = <<>>
    ELSE TRUE

\* C7: assert_account_closed(addr), in either implementation, passes exactly
\* when no account exists at addr or the account there has zero lamports and
\* empty data; it panics for an account with non-zero lamports or non-empty
\* data, zero lamports with non-empty data included.
C7_AccountClosedPassesIffAbsentOrEmpty ==
    JustAsserted("assert_account_closed") =>
        /\ chk.outcome = "pass" <=> IsClosed(chk.addr)
        /\ chk.outcome = "panic" <=> ~IsClosed(chk.addr)

\* C7 witness: the AnchorContext assertion panicked on an account with zero
\* lamports and non-empty data.
C7_Witness ==
    /\ JustAsserted("assert_account_closed")
    /\ chk.impl = "AnchorContext"
    /\ chk.addr \in DOMAIN svm.accounts
    /\ svm.accounts[chk.addr].lamports = 0
    /\ svm.accounts[chk.addr].data # <<>>
    /\ chk.outcome = "panic"

(***************************************************************************)
(* Claims about event parsing (checked under SpecEvents).                  *)
(***************************************************************************)
\* log is a "Program data: " line
IsDataLine(log) == log.prefix = "Program data: "

\* every "Program data: " line of logs is valid base64
AllDataLinesDecode(logs) ==
    \A i \in 1..Len(logs) : IsDataLine(logs[i]) => B64Decode(logs[i].rest).kind = "Ok"

\* log has the prefix, decodes to at least 8 bytes and starts with T's discriminator
IsEventLineOf(log, T) ==
    IF IsDataLine(log)
    THEN LET d == B64Decode(log.rest)
         IN IF d.kind = "Ok"
            THEN IF Len(d.value) >= 8 THEN SubSeq(d.value, 1, 8) = T.DISCRIMINATOR ELSE FALSE
            ELSE FALSE
    ELSE FALSE

\* the body of an event line, read as a T
EventOfLine(log, T) ==
    LET d == B64Decode(log.rest).value
    IN AnchorDeserialize_deserialize(T, SubSeq(d, 9, Len(d)))

\* the event lines of T in logs, in log order
EventLinesOf(logs, T) == SelectSeq(logs, LAMBDA log : IsEventLineOf(log, T))

\* every event line of T in logs has a body that deserializes
AllEventBodiesDeserialize(logs, T) ==
    \A i \in 1..Len(logs) :
        IsEventLineOf(logs[i], T) => EventOfLine(logs[i], T).kind = "Ok"

\* parse_events::<T> returned Ok with one event per event line of T, in log order
ReturnedOnePerEventLine(logs, T, out) ==
    LET lines == EventLinesOf(logs, T)
    IN /\ out.kind = "Ok"
       /\ Len(out.value) = Len(lines)
       /\ \A i \in 1..Len(lines) : Ok(out.value[i]) = EventOfLine(lines[i], T)

\* C10 as stated: parse_events<T> on a result whose "Program data: " lines all
\* decode returns, in log order, exactly one event per log line that has the
\* prefix, decodes to at least 8 bytes and starts with T's discriminator; other
\* lines contribute nothing and cause no error.
C10_Original_OnePerMatchingLine ==
    JustAsserted("parse_events") =>
        LET logs == TransactionResult_logs(ret.value)
        IN AllDataLinesDecode(logs) =>
              ReturnedOnePerEventLine(logs, EventType(chk.arg), chk.value)

\* C10 (amended): parse_events<T> on a result whose "Program data: " lines all
\* decode from base64, and whose lines carrying T's discriminator all have a
\* body that deserializes as T, returns in log order exactly one event per log
\* line that has the prefix, decodes to at least 8 bytes and starts with T's
\* discriminator; lines without the prefix, lines decoding to fewer than 8
\* bytes and lines with another discriminator contribute nothing and cause no
\* error.
C10_OnePerMatchingLineWhenBodiesDeserialize ==
    JustAsserted("parse_events") =>
        LET logs == TransactionResult_logs(ret.value)
            T == EventType(chk.arg)
        IN (AllDataLinesDecode(logs) /\ AllEventBodiesDeserialize(logs, T)) =>
              ReturnedOnePerEventLine(logs, T, chk.value)

\* C10 witness: two TransferEvents around a line of another event were parsed,
\* and came back in log order.
C10_Witness ==
    /\ JustAsserted("parse_events")
    /\ chk.arg = "TransferEvent"
    /\ Len(TransactionResult_logs(ret.value)) = 3
    /\ IsEventLineOf(TransactionResult_logs(ret.value)[2], CloseEvent)
    /\ chk.value.kind = "Ok"
    /\ Len(chk.value.value) = 2
    /\ chk.value.value[1].values[3] = 1000000
    /\ chk.value.value[2].values[3] = 42

\* the events parse_events::<T> gives for the result at hand, T the type asked for
ParsedNow == parse_events(ret.value, EventType(chk.arg))

\* parse_events::<T> gives Ok with at least one event for the result at hand
ParsedSome == IF ParsedNow.kind = "Ok" THEN ParsedNow.value # <<>> ELSE FALSE

\* C11: the derived event helpers agree with parse_events<T>: parse_event<T>
\* returns its first element, EventNotFound when the list is empty (and its
\* error when it fails); has_event<T> is true iff parse_events<T> returns Ok
\* with a non-empty list; assert_event_emitted<T> passes iff that list is
\* non-empty; assert_event_count<T>(n) passes iff its length is n; both
\* assertions panic when parse_events<T> returns an error.
C11_DerivedHelpersAgreeWithParseEvents ==
    /\ JustAsserted("parse_event") =>
          chk.value = IF ParsedNow.kind = "Err" THEN ParsedNow
                      ELSE IF ParsedNow.value = <<>> THEN Err(EventNotFound)
                      ELSE Ok(ParsedNow.value[1])
    /\ JustAsserted("has_event") => (chk.outcome = "true" <=> ParsedSome)
    /\ JustAsserted("assert_event_emitted") =>
          /\ chk.outcome = "pass" <=> ParsedSome
          /\ chk.outcome = "panic" <=> ~ParsedSome
    /\ JustAsserted("assert_event_count") =>
          /\ chk.outcome = "pass" <=>
                (IF ParsedNow.kind = "Ok" THEN Len(ParsedNow.value) = chk.count ELSE FALSE)
          /\ ParsedNow.kind = "Err" => chk.outcome = "panic"

\* C11 witness: has_event answered false for a log that holds an event of T on
\* one line and text that is not base64 on another.
C11_Witness ==
    /\ JustAsserted("has_event")
    /\ chk.outcome = "false"
    /\ ParsedNow.kind = "Err"
    /\ \E i \in 1..Len(TransactionResult_logs(ret.value)) :
          IsEventLineOf(TransactionResult_logs(ret.value)[i], EventType(chk.arg))

\* the sum of the amounts of the accepted mint_to calls in log
RECURSIVE TotalMinted(_)
TotalMinted(log) == IF log = <<>> THEN 0 ELSE Head(log).amount + TotalMinted(Tail(log))

\* C12: after create_funded_account, create_token_mint under that authority,
\* create_associated_token_account for the mint and any sequence of successful
\* mint_to calls with amounts a1..ak into that token account,
\* assert_token_balance(account, X) passes iff X = a1 + ... + ak and
\* assert_mint_supply(mint, Y) passes iff Y is the total minted on that mint; a
\* freshly created mint has supply 0.
C12_BalanceAndSupplyAreTheSumMinted ==
    /\ (JustAsserted("assert_token_balance") /\ TokenAccountAt(svm, "ata").kind = "Ok") =>
          (chk.addr = "ata" => (chk.outcome = "pass" <=> chk.arg = TotalMinted(calls)))
    /\ (JustAsserted("assert_mint_supply") /\ MintAt(svm, "mint").kind = "Ok") =>
          (chk.addr = "mint" => (chk.outcome = "pass" <=> chk.arg = TotalMinted(calls)))
    /\ (IF lastCall = None THEN FALSE ELSE lastCall.op = "create_token_mint" /\ ret.kind = "Ok") =>
          /\ MintAt(svm, "mint").kind = "Ok"
          /\ MintAt(svm, "mint").value.supply = 0
          /\ LiteSVM_assert_mint_supply(svm, "mint", 0) = "pass"

\* C12 witness: after mint_to of 500 and then 1000, assert_token_balance of the
\* LiteSVM implementation passed on the token account with 1500.
C12_Witness ==
    /\ JustAsserted("assert_token_balance")
    /\ chk.impl = "LiteSVM"
    /\ chk.addr = "ata"
    /\ chk.arg = 1500
    /\ chk.outcome = "pass"
    /\ calls = <<[method |-> "mint_to", amount |-> 500], [method |-> "mint_to", amount |-> 1000]>>

\* the i-th 8-byte field after the discriminator in data
PayloadField(data, i) == SubSeq(data, 8 + 8 * (i - 1) + 1, 8 + 8 * i)

\* C13: the payload produced by args(tuple_args(t)) is the 8-byte discriminator
\* followed by the encodings of t's elements in tuple order with no padding: the
\* empty tuple adds no bytes, a single u64 42 gives 8 + 8 bytes whose last 8 are
\* the little-endian encoding of 42, and three u64 values give 8 + 24 bytes.
C13_PayloadIsDiscriminatorThenFieldsInOrder ==
    (builder.type = "InstructionBuilder" /\ argsLog # None) =>
        LET t == argsLog.value
            data == builder.data
        IN /\ Len(data) = 8 + 8 * Len(t)
           /\ SubSeq(data, 1, 8) = calculate_anchor_discriminator(builder.instruction_name)
           /\ \A i \in 1..Len(data) : data[i] \in 0..255
           /\ \A i \in 1..Len(t) : U64_from_le_bytes(PayloadField(data, i)) = t[i]
           /\ (t = <<>>) => Len(data) = 8
           /\ (t = <<42>>) =>
                 /\ Len(data) = 16
                 /\ SubSeq(data, 9, 16) = <<42, 0, 0, 0, 0, 0, 0, 0>>
           /\ (t = <<1000000, 42>>) =>
                 /\ PayloadField(data, 1) = <<64, 66, 15, 0, 0, 0, 0, 0>>
                 /\ PayloadField(data, 2) = <<42, 0, 0, 0, 0, 0, 0, 0>>
           /\ (Len(t) = 3) => Len(data) = 8 + 24

\* C13 witness: args was called with the three-element tuple and the payload has
\* 32 bytes.
C13_Witness ==
    /\ builder.type = "InstructionBuilder"
    /\ argsLog = Some(<<42, 100, 200>>)
    /\ Len(builder.data) = 32

\* the first 8 bytes (or fewer, if there are fewer) of a payload
Prefix8(data) == SubSeq(data, 1, IF Len(data) < 8 THEN Len(data) ELSE 8)

\* the builders that could have been created with instruction name n and given
\* arguments: any program id, any argument tuple
BuildersNamed(n) ==
    {InstructionBuilder_args(InstructionBuilder_new(p, n), t) :
        p \in Pubkeys \cup {ProgramId}, t \in ArgTuples}

RECURSIVE ProgramsAdded(_)
ProgramsAdded(log) ==
    IF log = <<>>
    THEN <<>>
    ELSE (IF Head(log).method = "with_primary_program" THEN <<>> ELSE Head(log).programs)
         \o ProgramsAdded(Tail(log))

\* the positions of the with_primary_program calls in log
PrimaryCalls(log) == {i \in 1..Len(log) : log[i].method = "with_primary_program"}

\* the argument of the most recent with_primary_program call if there was one,
\* otherwise the id of the first program added, if any
PrimaryByCalls(log) ==
    IF PrimaryCalls(log) # {}
    THEN Some(log[CHOOSE i \in PrimaryCalls(log) : \A j \in PrimaryCalls(log) : j <= i].program_id)
    ELSE IF ProgramsAdded(log) # <<>>
         THEN Some(ProgramsAdded(log)[1][1])
         ELSE None

C15_State ==
    /\ builder.primary_program_id = PrimaryByCalls(calls)
    /\ builder.programs = ProgramsAdded(calls)

C15_Step ==
    (/\ calls' # calls
     /\ builder.primary_program_id # None
     /\ calls'[Len(calls')].method # "with_primary_program")
        => builder'.primary_program_id = builder.primary_program_id

\* C15: after any sequence of deploy_program, deploy_programs and
\* with_primary_program calls on an AnchorLiteSVM builder, the primary program id
\* is the argument of the most recent with_primary_program call if there was
\* one, and otherwise the id of the first program ever added; later deploy calls
\* never change a primary that is already set, and the program list holds one
\* entry per added program in the order added.
C15_PrimaryIsLastOverrideElseFirstProgram ==
    []C15_State /\ [][C15_Step]_vars

\* C15 witness: program was deployed, program2 was made primary, and a further
\* deploy_programs call left program2 primary.
C15_Witness ==
    /\ Len(calls) = 3
    /\ calls[1].method = "deploy_program"
    /\ calls[2] = [method |-> "with_primary_program", program_id |-> "program2"]
    /\ calls[3].method = "deploy_programs"
    /\ Len(builder.programs) = 3
    /\ builder.programs[1][1] = "program"
    /\ builder.primary_program_id = Some("program2")

\* C16: AnchorLiteSVM::build panics with "At least one program must be deployed"
\* if and only if no program was added through deploy_program / deploy_programs
\* (a with_primary_program call alone does not prevent the panic); when it does
\* not panic, every added program is deployed to the ledger and the returned
\* context's program id is the builder's primary program id.
C16_BuildPanicsIffNoProgramAdded ==
    built # None =>
        /\ built = Panic("At least one program must be deployed")
              <=> ProgramsAdded(calls) = <<>>
        /\ built.kind # "Panic" =>
              /\ built.kind = "Ok"
              /\ built.value.program_id = builder.primary_program_id.value
              /\ built.value.svm = svm
              /\ \A i \in 1..Len(ProgramsAdded(calls)) :
                    LET id == ProgramsAdded(calls)[i][1]
                    IN /\ id \in DOMAIN svm.accounts
                       /\ svm.accounts[id].executable
                       /\ \E j \in 1..Len(ProgramsAdded(calls)) :
                             ProgramsAdded(calls)[j] = <<id, svm.accounts[id].data>>

\* C16 witness: build was called after with_primary_program alone and panicked.
C16_Witness ==
    /\ calls = <<[method |-> "with_primary_program", program_id |-> "program"]>>
    /\ built = Panic("At least one program must be deployed")

(***************************************************************************)
(* Claims about reading Anchor accounts (checked under SpecAccount).       *)
(***************************************************************************)
\* the last operation was the read op
JustFetched(op) == IF lastCall = None THEN FALSE ELSE lastCall.op = op

\* what the ledger holds at the address last read
FetchedAccount == LiteSVM_get_account(svm, lastCall.address)

\* the bytes after the first 8 hold a whole TestAccount
BodyDeserializes(data) == Len(data) >= 8 + 8 + 32

\* the TestAccount written after the first 8 bytes of data
DecodedAccount(data) ==
    [name |-> "TestAccount",
     values |-> <<U64_from_le_bytes(SubSeq(data, 9, 16)), SubSeq(data, 17, 48)>>]

IsDeserializationError(r) ==
    IF r.kind = "Err" THEN r.error.variant = "DeserializationError" ELSE FALSE

\* C17 as stated: get_anchor_account returns AccountNotFound when no account
\* exists at the address, DeserializationError when the account's first 8 bytes
\* are not the type's discriminator, and the decoded value when they are;
\* get_anchor_account_unchecked returns the decoded value whatever the first 8
\* bytes are (and AccountNotFound for a missing account); neither changes the
\* ledger state.
C17_Original_DecodedWheneverDiscriminatorAllows ==
    /\ JustFetched("get_anchor_account") =>
          /\ svm = lastCall.before
          /\ IF FetchedAccount = None
             THEN ret = Err(AccountNotFound(lastCall.address))
             ELSE IF Prefix8(FetchedAccount.value.data) # TestAccount.DISCRIMINATOR
                  THEN IsDeserializationError(ret)
                  ELSE /\ ret.kind = "Ok"
                       /\ ret.value = DecodedAccount(FetchedAccount.value.data)
    /\ JustFetched("get_anchor_account_unchecked") =>
          /\ svm = lastCall.before
          /\ IF FetchedAccount = None
             THEN ret = Err(AccountNotFound(lastCall.address))
             ELSE /\ ret.kind = "Ok"
                  /\ ret.value = DecodedAccount(FetchedAccount.value.data)

\* C17, amended: get_anchor_account returns AccountNotFound when no account
\* exists at the address, the decoded value when the first 8 bytes are the
\* type's discriminator and the bytes after them deserialize as the type, and
\* DeserializationError otherwise; get_anchor_account_unchecked returns
\* AccountNotFound for a missing account, the decoded value whatever the first 8
\* bytes are when there are 8 and the bytes after them deserialize, and
\* DeserializationError otherwise; neither changes the ledger state.
C17_DecodedWhenBodyDeserializes ==
    /\ JustFetched("get_anchor_account") =>
          /\ svm = lastCall.before
          /\ IF FetchedAccount = None
             THEN ret = Err(AccountNotFound(lastCall.address))
             ELSE IF /\ Prefix8(FetchedAccount.value.data) = TestAccount.DISCRIMINATOR
                     /\ BodyDeserializes(FetchedAccount.value.data)
                  THEN /\ ret.kind = "Ok"
                       /\ ret.value = DecodedAccount(FetchedAccount.value.data)
                  ELSE IsDeserializationError(ret)
    /\ JustFetched("get_anchor_account_unchecked") =>
          /\ svm = lastCall.before
          /\ IF FetchedAccount = None
             THEN ret = Err(AccountNotFound(lastCall.address))
             ELSE IF BodyDeserializes(FetchedAccount.value.data)
                  THEN /\ ret.kind = "Ok"
                       /\ ret.value = DecodedAccount(FetchedAccount.value.data)
                  ELSE IsDeserializationError(ret)

\* C17 witness: get_anchor_account_unchecked decoded value 99 from an account
\* whose first 8 bytes are not the discriminator.
C17_Witness ==
    /\ JustFetched("get_anchor_account_unchecked")
    /\ FetchedAccount # None
    /\ Prefix8(FetchedAccount.value.data) = <<9, 9, 9, 9, 9, 9, 9, 9>>
    /\ ret.kind = "Ok"
    /\ ret.value.values[1] = 99

\* the flags each account-adding method is said to give its entry
FlagsOf(method) ==
    CASE method = "account_mut" -> [is_signer |-> FALSE, is_writable |-> TRUE]
      [] method = "signer" -> [is_signer |-> TRUE, is_writable |-> TRUE]
      [] method = "signer_readonly" -> [is_signer |-> TRUE, is_writable |-> FALSE]
      [] OTHER -> [is_signer |-> FALSE, is_writable |-> FALSE]

\* the address each well-known-program method is said to add
WellKnownAddress(method) ==
    CASE method = "system_program" -> "11111111111111111111111111111111"
      [] method = "token_program" -> "TokenkegQfeZyiNwAJbNbGKPFXCWuBvf9Ss623VQ5DA"
      [] method = "associated_token_program" -> "ATokenGPvbdGVxr1b2hvZbsiqW5xWH25efTNsLJA8knL"
      [] method = "rent_sysvar" -> "SysvarRent111111111111111111111111111111111"

WellKnownMethods == {"system_program", "token_program", "associated_token_program", "rent_sysvar"}

\* C18: each account-adding method appends an entry with fixed flags: account
\* gives read-only non-signer, account_mut writable non-signer, signer writable
\* signer, signer_readonly read-only signer, and system_program, token_program,
\* associated_token_program and rent_sysvar each append exactly one read-only
\* non-signer entry holding the corresponding well-known fixed address.
C18_EachMethodAddsItsFixedFlags ==
    builder.type = "InstructionBuilder" =>
        /\ Len(builder.accounts) = Len(calls)
        /\ \A i \in 1..Len(calls) :
              LET meta == builder.accounts[i].meta
              IN /\ meta.is_signer = FlagsOf(calls[i].method).is_signer
                 /\ meta.is_writable = FlagsOf(calls[i].method).is_writable
                 /\ calls[i].method \in WellKnownMethods =>
                       meta.pubkey = WellKnownAddress(calls[i].method)
                 /\ calls[i].method \notin WellKnownMethods =>
                       meta.pubkey = calls[i].pubkey

\* C18 witness: signer and then rent_sysvar were called; the list holds a writable
\* signer entry and a read-only non-signer entry at the rent sysvar's address.
C18_Witness ==
    /\ builder.type = "InstructionBuilder"
    /\ Len(calls) = 2
    /\ calls[1].method = "signer"
    /\ calls[2].method = "rent_sysvar"
    /\ builder.accounts[1].meta.is_signer /\ builder.accounts[1].meta.is_writable
    /\ builder.accounts[2].meta = [pubkey |-> "SysvarRent111111111111111111111111111111111",
                                   is_signer |-> FALSE, is_writable |-> FALSE]

\* the positions of the calls that added an entry under name
AddedUnder(name) == {i \in 1..Len(calls) : calls[i].name = name}

C19_State ==
    (builder.type = "InstructionBuilder" /\ chk # None) =>
        IF AddedUnder(chk.arg) = {}
        THEN chk.outcome = None
        ELSE /\ chk.outcome.kind = "Some"
             /\ \E i \in AddedUnder(chk.arg) :
                   /\ chk.outcome.value.pubkey =
                         (IF calls[i].method \in WellKnownMethods
                          THEN WellKnownAddress(calls[i].method)
                          ELSE calls[i].pubkey)
                   /\ chk.outcome.value.is_signer = FlagsOf(calls[i].method).is_signer
                   /\ chk.outcome.value.is_writable = FlagsOf(calls[i].method).is_writable

C19_Step == chk' # chk => (builder' = builder /\ calls' = calls)

\* C19: InstructionBuilder::get_account(name) returns none for every name under
\* which no entry was added, and for a name that was added returns the address
\* and flags of an entry added under that name; calling it never changes the
\* ordered account list or the payload.
C19_GetAccountFindsAnEntryOfThatName ==
    []C19_State /\ [][C19_Step]_vars

\* C19 witness: after signer("user") and account_mut("vault"), with a payload set,
\* get_account("vault") returned the writable non-signer entry.
C19_Witness ==
    /\ builder.type = "InstructionBuilder"
    /\ chk # None
    /\ chk.arg = "vault"
    /\ Len(calls) = 2
    /\ calls[1].method = "signer" /\ calls[1].name = "user"
    /\ calls[2].method = "account_mut" /\ calls[2].name = "vault"
    /\ builder.data # <<>>
    /\ chk.outcome = Some([pubkey |-> calls[2].pubkey, is_signer |-> FALSE,
                           is_writable |-> TRUE])

(***************************************************************************)
(* Claims about the fee payer (checked under SpecExec).                    *)
(***************************************************************************)
\* the operations that take a signer list and submit a transaction
SigningOperations ==
    {"send_instruction", "send_instructions", "execute_instruction",
     "execute_instructions", "AnchorContext::send_instruction",
     "AnchorContext::send_instructions", "execute"}

\* the last call submitted a transaction through one of the execution operations
SubmittedByOperation ==
    IF lastCall = None
    THEN FALSE
    ELSE lastCall.op \in SigningOperations /\ lastCall.tx # None

\* C20: in every execution operation the fee payer of the submitted transaction
\* is the first signer of the supplied signer list whenever that list is
\* non-empty; the only other payer ever used is the context's own default payer,
\* by AnchorContext::execute_instruction / execute_instructions when the list is
\* empty.
C20_PayerIsFirstSignerElseContextPayer ==
    SubmittedByOperation =>
        IF lastCall.signers # <<>>
        THEN lastCall.tx.value.payer = pubkey(lastCall.signers[1])
        ELSE /\ lastCall.op \in {"execute_instruction", "execute_instructions"}
             /\ lastCall.tx.value.payer = pubkey(CtxPayer)

\* C20 witness: execute_instructions was given the signers bob and alice for
\* instructions that both of them sign, and submitted a transaction paid by bob.
C20_Witness ==
    /\ SubmittedByOperation
    /\ lastCall.op = "execute_instructions"
    /\ lastCall.signers = <<"bob", "alice">>
    /\ lastCall.tx.value.payer = "bob"
    /\ SignerKeys(lastCall.tx.value.instructions) = {"alice", "bob"}

(***************************************************************************)
(* Claims about batching (checked under SpecExec).                         *)
(***************************************************************************)
\* the last call was op, of litesvm-utils or of the legacy AnchorContext
JustCalled(ops) == IF lastCall = None THEN FALSE ELSE lastCall.op \in ops

\* the last call submitted exactly one transaction: all of the instructions given,
\* in the order given, signed by all signers given, against the blockhash the
\* ledger had when the call was made
SubmittedOneWithAll ==
    /\ svm.sent = lastCall.before.sent + 1
    /\ lastCall.tx # None
    /\ lastCall.tx.value.instructions = lastCall.input
    /\ lastCall.tx.value.signers = lastCall.signers
    /\ lastCall.tx.value.recent_blockhash = lastCall.before.latest_blockhash

\* what send_instructions of the same crate gives on the single-instruction list
SameAsBatchOfOne ==
    LET out == IF lastCall.op = "send_instruction"
               THEN send_instructions(lastCall.before, lastCall.input, lastCall.signers,
                                      IF lastCall.answer = None
                                      THEN Ok(CHOOSE m \in Metas : TRUE)
                                      ELSE lastCall.answer.value)
               ELSE AnchorContext_send_instructions(
                        lastCall.before, lastCall.input, lastCall.signers,
                        IF lastCall.answer = None
                        THEN Ok(CHOOSE m \in Metas : TRUE)
                        ELSE lastCall.answer.value)
    IN /\ Len(lastCall.input) = 1
       /\ ret = out.ret
       /\ lastCall.tx = out.tx
       /\ svm = (IF out.tx = None
                 THEN lastCall.before
                 ELSE LiteSVM_send_transaction(
                          lastCall.before,
                          IF lastCall.answer = None
                          THEN Ok(CHOOSE m \in Metas : TRUE)
                          ELSE lastCall.answer.value))

\* the signers given are the ones the transaction needs: the payer and the
\* signer accounts of the instructions
SignersFit ==
    /\ lastCall.signers # <<>>
    /\ Range(lastCall.signers) =
          {pubkey(lastCall.signers[1])} \cup SignerKeys(lastCall.input)

JustHelped(op) == IF lastCall = None THEN FALSE ELSE lastCall.op = op

\* C22: create_token_mint submits create-account and initialize-mint as one
\* all-or-nothing transaction: after it returns Ok the mint account exists with
\* 82 bytes of data, is owned by the token program and has supply 0; after it
\* returns Err no account exists at the new mint address. A mint account that is
\* created but not initialized is never observable.
C22_MintIsCreatedInitializedOrNotAtAll ==
    /\ JustHelped("create_token_mint") =>
          IF ret.kind = "Ok"
          THEN /\ LiteSVM_get_account(svm, pubkey(ret.value)) # None
               /\ Len(svm.accounts[pubkey(ret.value)].data) = 82
               /\ svm.accounts[pubkey(ret.value)].owner =
                     "TokenkegQfeZyiNwAJbNbGKPFXCWuBvf9Ss623VQ5DA"
               /\ MintAt(svm, pubkey(ret.value)).kind = "Ok"
               /\ MintAt(svm, pubkey(ret.value)).value.supply = 0
          ELSE /\ LiteSVM_get_account(svm, "mint") = None
               /\ svm = lastCall.before
    /\ LiteSVM_get_account(svm, "mint") # None =>
          /\ MintAt(svm, "mint").kind = "Ok"
          /\ svm.accounts["mint"].data[46] = 1

\* C22 witness: the ledger rejected the transaction of create_token_mint for a
\* funded authority, and no account exists at the mint address.
C22_Witness ==
    /\ JustHelped("create_token_mint")
    /\ ret.kind = "Err"
    /\ LiteSVM_get_account(svm, "alice") # None
    /\ LiteSVM_get_account(svm, "mint") = None

\* assert_sol_balance has just been called
SolBalanceAsserted == IF chk = None THEN FALSE ELSE chk.op = "assert_sol_balance"

\* the lamports at addr, none when there is no account
LamportsAt(s, addr) == IF addr \in DOMAIN s.accounts THEN s.accounts[addr].lamports ELSE 0

\* C23: assert_sol_balance(addr, E) passes if and only if the lamports of the
\* account at addr equal E, where an address with no account counts as 0
\* lamports; in particular create_funded_account(L) followed by
\* assert_sol_balance(new address, L) passes, and assert_sol_balance(unknown
\* address, 0) passes.
C23_SolBalancePassesIffLamportsEqual ==
    SolBalanceAsserted =>
        /\ chk.outcome = "pass" <=> LamportsAt(svm, chk.addr) = chk.arg
        /\ (/\ JustHelped("create_funded_account")
            /\ ret.kind = "Ok"
            /\ chk.addr = pubkey(ret.value)
            /\ chk.arg = 1000000000) => chk.outcome = "pass"
        /\ (chk.addr \notin DOMAIN svm.accounts /\ chk.arg = 0) => chk.outcome = "pass"

\* C23 witness: assert_sol_balance passed with 0 expected at an address where
\* no account exists.
C23_Witness ==
    /\ SolBalanceAsserted
    /\ chk.addr = "unknown"
    /\ chk.arg = 0
    /\ chk.outcome = "pass"
    /\ "unknown" \notin DOMAIN svm.accounts

(***************************************************************************)
(* Claims about the clock (checked under SpecSlot).                        *)
(***************************************************************************)
\* the slot before the last advance_slot call plus the slots passed to it is
\* still a u64
SumIsU64 == ~u64_add(Clock_slot(lastCall.before), lastCall.slots).overflow

\* what the claim says of the state after advance_slot(n) at slot s: the call
\* returned, the slot is s + n and is what get_current_slot returns, the warps
\* went through s + 1 .. s + n in this order, n = 0 left the ledger alone, and
\* the slot is not below s
AdvancedBy ==
    LET s == Clock_slot(lastCall.before)
        n == lastCall.slots
    IN /\ ret.kind = "Ok"
       /\ Clock_slot(svm) = s + n
       /\ s < 0 => Clock_slot(svm) < 0
       /\ (IF chk = None THEN FALSE ELSE chk.op = "get_current_slot") =>
             chk.outcome = s + n
       /\ lastCall.warps = [i \in 1 .. n |-> s + i]
       /\ \A i \in 1 .. n : s < 0 => lastCall.warps[i] < 0
       /\ n = 0 => svm = lastCall.before
       /\ ~u64_lt(Clock_slot(svm), s)

\* C24 (as stated): after advance_slot(n) on a ledger whose current slot is s,
\* get_current_slot() returns s + n; the ledger is warped through s+1, ...,
\* s+n in increasing order, advance_slot(0) leaves the slot unchanged, and no
\* advance_slot call ever decreases the slot.
C24_Original_AlwaysAdvancedBy ==
    JustHelped("advance_slot") => AdvancedBy

\* C24 (amended): the same, for the calls where s + n does not exceed the
\* largest u64.
C24_AdvancedByWhenSumIsU64 ==
    (JustHelped("advance_slot") /\ SumIsU64) => AdvancedBy

\* C24 witness: get_current_slot was read after advance_slot(3) moved the
\* ledger from slot 1 to slot 4 through 2, 3 and 4.
C24_Witness ==
    /\ JustHelped("advance_slot")
    /\ lastCall.slots = 3
    /\ Clock_slot(lastCall.before) = 1
    /\ lastCall.warps = <<2, 3, 4>>
    /\ (IF chk = None THEN FALSE ELSE chk.op = "get_current_slot")
    /\ chk.outcome = 4

(***************************************************************************)
(* Claims about the legacy execution operations (checked under SpecExec)   *)
(* and about the results (checked under SpecResult).                       *)
(***************************************************************************)
\* the last operation handed a transaction to the ledger, which rejected it
Rejected ==
    IF lastCall.answer = None THEN FALSE ELSE lastCall.answer.value.kind = "Err"

\* C25: in the legacy AnchorContext API (send_instruction, send_instructions,
\* execute, InstructionBuilder::execute) a ledger rejection is returned as
\* Err(TransactionError::ExecutionFailed) and no TransactionResult is created
\* for it; so every legacy TransactionResult stands for a successful
\* transaction and legacy assert_success never panics.
C25_LegacyRejectionIsErrExecutionFailed ==
    JustCalled(LegacyOperations) =>
        /\ Rejected =>
              /\ ret.kind = "Err"
              /\ ret.error.variant = "ExecutionFailed"
              /\ ret.error = ExecutionFailed(lastCall.answer.value.error)
        /\ ret.kind = "Ok" =>
              /\ lastCall.answer # None
              /\ lastCall.answer.value.kind = "Ok"
              /\ ret.value.inner = lastCall.answer.value.value
              /\ ret.value.error = None
              /\ svm.committed = lastCall.before.committed + 1
        /\ (IF chk = None THEN FALSE ELSE chk.op = "TransactionResult::assert_success") =>
              chk.outcome = "pass"

\* C25 witness: the ledger rejected the transaction of the legacy execute, which
\* returned Err(ExecutionFailed).
C25_Witness ==
    /\ JustCalled({"AnchorContext::execute"})
    /\ Rejected
    /\ ret.kind = "Err"
    /\ ret.error.variant = "ExecutionFailed"

\* the metadata the operation that made the result at hand was given
MetadataGiven ==
    IF lastCall.op \in {"new", "new_failed"}
    THEN lastCall.input
    ELSE IF lastCall.answer.value.kind = "Ok"
         THEN lastCall.answer.value.value
         ELSE lastCall.answer.value.error.meta

\* the result at hand carries the logs and the compute units of the metadata
\* it was made from, whatever has been asked of it since
C26_State ==
    HasResult =>
        /\ TransactionResult_logs(ret.value) = MetadataGiven.logs
        /\ TransactionResult_compute_units(ret.value) =
              MetadataGiven.compute_units_consumed

\* a query or an assertion leaves the result it is called on as it is
C26_Step == chk' # None => (HasResult /\ ret' = ret)

LastAddedUnder(name) == CHOOSE i \in AddedUnder(name) : \A j \in AddedUnder(name) : j <= i

\* the entry the i-th account-adding call is said to add
EntryOfCall(i) ==
    [pubkey |-> IF calls[i].method \in WellKnownMethods
                THEN WellKnownAddress(calls[i].method)
                ELSE calls[i].pubkey,
     is_signer |-> FlagsOf(calls[i].method).is_signer,
     is_writable |-> FlagsOf(calls[i].method).is_writable]

\* C27: when the same display name is passed to several account-adding calls
\* on one InstructionBuilder, every call still appends its own entry (the list
\* length equals the number of calls) and get_account(name) returns the entry
\* of the most recent call with that name.
C27_SameNameAppendsAndLastWins ==
    builder.type = "InstructionBuilder" =>
        /\ Len(InstructionBuilder_accounts(builder)) = Len(calls)
        /\ \A i \in 1..Len(calls) : InstructionBuilder_accounts(builder)[i] = EntryOfCall(i)
        /\ (chk # None /\ AddedUnder(IF chk = None THEN "missing" ELSE chk.arg) # {}) =>
              chk.outcome = Some(EntryOfCall(LastAddedUnder(chk.arg)))

\* C27 witness: account("vault", alice) and then signer("vault", bob) were called,
\* the list holds both entries, and get_account("vault") returned bob's.
C27_Witness ==
    /\ builder.type = "InstructionBuilder"
    /\ Len(calls) = 2
    /\ calls[1] = [method |-> "account", name |-> "vault", pubkey |-> "alice"]
    /\ calls[2] = [method |-> "signer", name |-> "vault", pubkey |-> "bob"]
    /\ Len(builder.accounts) = 2
    /\ chk # None
    /\ chk.arg = "vault"
    /\ chk.outcome = Some([pubkey |-> "bob", is_signer |-> TRUE, is_writable |-> TRUE])

\* the payload a single args call with the last value given leaves
PayloadOfLast ==
    IF argsLog = None
    THEN <<>>
    ELSE IF builder.type = "InstructionBuilder"
         THEN calculate_anchor_discriminator(builder.instruction_name)
                  \o TupleArgs_serialize(argsLog.value)
         ELSE InstructionData_data(argsLog.value)

\* the account list the calls made so far leave
AccountsOfCalls ==
    IF builder.type = "InstructionBuilder"
    THEN [i \in 1..Len(calls) |-> EntryOfCall(i)]
    ELSE IF calls = <<>> THEN <<>> ELSE calls[Len(calls)].metas

\* C28: setting the payload is last-write-wins and never accumulates: calling
\* args (InstructionBuilder) or args/accounts (RequestBuilder) more than once
\* leaves only the value of the last call, so the built instruction is the same
\* as if only the last call had been made, and account-adding calls made
\* before or after args do not change the payload.
C28_PayloadIsTheLastOneSet ==
    /\ builder.data = PayloadOfLast
    /\ builder.type = "RequestBuilder" => builder.accounts = AccountsOfCalls
    /\ (IF built = None THEN FALSE ELSE built.kind = "Ok") =>
          LET instruction == Instruction(builder.program_id, AccountsOfCalls, PayloadOfLast)
          IN IF builder.type = "InstructionBuilder"
             THEN built.value = instruction
             ELSE built.value = <<instruction>>

\* C28 witness: args was called with three values and then with one, an account
\* was added, and the instruction built carries the discriminator and the one
\* value only.
C28_Witness ==
    /\ builder.type = "InstructionBuilder"
    /\ lastCall = [op |-> "args", previous |-> <<42, 100, 200>>]
    /\ argsLog = Some(<<42>>)
    /\ Len(calls) = 1
    /\ (IF built = None THEN FALSE ELSE built.kind = "Ok")
    /\ Len(built.value.data) = 16
    /\ Len(built.value.accounts) = 1

(***************************************************************************)
(* A further claim about event parsing (checked under SpecEvents).         *)
(***************************************************************************)
\* log is a "Program data: " line that is not valid base64
IsUndecodableLine(log) ==
    IF IsDataLine(log) THEN B64Decode(log.rest).kind = "Err" ELSE FALSE

\* log carries T's discriminator and a body that does not deserialize as T
IsBrokenEventLineOf(log, T) ==
    IF IsEventLineOf(log, T) THEN EventOfLine(log, T).kind = "Err" ELSE FALSE

\* the lines of logs at which parse_events::<T> fails
FailingLines(logs, T) ==
    {i \in 1..Len(logs) : IsUndecodableLine(logs[i]) \/ IsBrokenEventLineOf(logs[i], T)}

\* C29: parse_events<T> stops at the first failing line in log order and
\* returns no partial list: a "Program data: " line that is not valid base64
\* makes it return Base64Error for every event type T, even when valid events
\* of T are logged on other lines, and a line with T's discriminator whose body
\* does not deserialize makes it return AnchorError.
C29_FirstFailingLineDecidesTheError ==
    JustAsserted("parse_events") =>
        LET logs == TransactionResult_logs(ret.value)
            T == EventType(chk.arg)
            failing == FailingLines(logs, T)
        IN IF failing = {}
           THEN chk.value.kind = "Ok"
           ELSE LET first == CHOOSE i \in failing : \A j \in failing : i <= j
                IN /\ chk.value.kind = "Err"
                   /\ IF IsUndecodableLine(logs[first])
                      THEN chk.value.error = Base64Error(B64Decode(logs[first].rest).error)
                      ELSE /\ chk.value.error.variant = "AnchorError"
                           /\ chk.value.error =
                                 AnchorError(EventOfLine(logs[first], T).error)

\* C29 witness: a TransferEvent was logged, then a line that is not base64, then
\* another TransferEvent; parsing TransferEvent returned Base64Error.
C29_Witness ==
    /\ JustAsserted("parse_events")
    /\ chk.arg = "TransferEvent"
    /\ Len(TransactionResult_logs(ret.value)) = 3
    /\ IsEventLineOf(TransactionResult_logs(ret.value)[1], TransferEvent)
    /\ EventOfLine(TransactionResult_logs(ret.value)[1], TransferEvent).kind = "Ok"
    /\ IsUndecodableLine(TransactionResult_logs(ret.value)[2])
    /\ IsEventLineOf(TransactionResult_logs(ret.value)[3], TransferEvent)
    /\ chk.value.kind = "Err"
    /\ chk.value.error.variant = "Base64Error"

(***************************************************************************)
(* A claim about the three-argument create_token_account (checked under    *)
(* SpecAssert).                                                            *)
(***************************************************************************)
\* C30: the three-argument create_token_account(owner, mint, Some((amount,
\* authority))) is not atomic: it submits the associated-account creation and
\* the mint_to as two separate transactions in that order, so when the second
\* one fails the call returns Err while the token account created by the first
\* one stays on the ledger with balance 0; with None it submits only the
\* creation.
C30_CreationThenMintToAreTwoTransactions ==
    JustHelped("create_token_account") =>
        LET ata == get_associated_token_address("alice", "mint")
        IN /\ lastCall.mint_amount = None =>
                 lastCall.txs = <<<<"create_associated_token_account">>>>
           /\ (lastCall.mint_amount # None /\ lastCall.accepted[1]) =>
                 lastCall.txs = <<<<"create_associated_token_account">>, <<"mint_to">>>>
           /\ (lastCall.mint_amount # None /\ lastCall.accepted[1] /\ ~lastCall.accepted[2]) =>
                 /\ ret.kind = "Err"
                 /\ ata \notin DOMAIN lastCall.before.accounts
                 /\ TokenAccountAt(svm, ata).kind = "Ok"
                 /\ TokenAccountAt(svm, ata).value.amount = 0
                 /\ LiteSVM_assert_token_balance(svm, ata, 0) = "pass"
           /\ (lastCall.mint_amount = None /\ lastCall.accepted[1]) =>
                 /\ ret = Ok(ata)
                 /\ TokenAccountAt(svm, ata).value.amount = 0
                 /\ MintAt(svm, "mint") = MintAt(lastCall.before, "mint")
           /\ (lastCall.mint_amount # None /\ lastCall.accepted[2]) =>
                 /\ ret = Ok(ata)
                 /\ TokenAccountAt(svm, ata).value.amount = lastCall.mint_amount.value.amount
           /\ ~lastCall.accepted[1] => (ret.kind = "Err" /\ svm = lastCall.before)

\* C30 witness: create_token_account with an amount returned Err after the
\* ledger took the creation and rejected the mint_to; the token account is on
\* the ledger with balance 0.
C30_Witness ==
    /\ JustHelped("create_token_account")
    /\ lastCall.mint_amount # None
    /\ lastCall.accepted = <<TRUE, FALSE>>
    /\ ret.kind = "Err"
    /\ "ata" \notin DOMAIN lastCall.before.accounts
    /\ TokenAccountAt(svm, "ata").kind = "Ok"
    /\ TokenAccountAt(svm, "ata").value.amount = 0

====
